---- MODULE Spec2Model ----
(***************************************************************************)
(* Coordinated remote transactions of                                      *)
(* src/backend/distributed/transaction/remote_transaction.c:               *)
(* the per-connection RemoteTransaction state machine, the failure         *)
(* classifier, the coordinated prepare / commit / abort / savepoint phases *)
(* over the list InProgressTransactions, and the 2PC identifier counter.   *)
(*                                                                         *)
(* A coordinated function is a single control thread running two loops     *)
(* over the participant list (all Start session, one wait, all Finish        *)
(* calls).  Its position is the variable pc; one step of the model is one  *)
(* loop iteration, i.e. one whole Start... or Finish... call on one        *)
(* connection (or the skip of that connection).  ereport(ERROR) unwinds    *)
(* the coordinated function: pc returns to idle with raised = TRUE.        *)
(***************************************************************************)
EXTENDS Integers, Sequences, FiniteSets, TLC

\* ------------------------------------------------------------------ bounds

\* the connections there are
Conns == {"A", "B"}

\* the connections of a session whose caller calls in any order
FreeSession == {"A"}

\* largest value the static connectionNumber counter is let to reach
MaxConnectionNumber == 3

\* largest sub-transaction id the local transaction hands out
MaxSubId == 3

\* TopSubTransactionId of PostgreSQL: the id of the top-level transaction
TopSubTransactionId == 1

SubIds == (TopSubTransactionId + 1)..MaxSubId

\* ------------------------------------------------------------- state space

VARIABLES
    tx,                     \* connection -> its embedded RemoteTransaction
    transactionInProgress,  \* connection -> member of InProgressTransactions
    InProgressTransactions, \* the dlist of participants, in insertion order
    modifiedPlacement,      \* connection -> ConnectionModifiedPlacement()
    reply,                  \* connection -> remote answer to the last command sent
    connectionNumber,       \* the static counter of Assign2PCIdentifier
    pc,                     \* position of the control thread
    session,                \* the connections this session has opened
    assertChecking,         \* the build has USE_ASSERT_CHECKING (Assert is live)
    caller,                 \* how far the calling transaction manager has got
    last,                   \* what the last Start/Finish call did (observation)
    process,                \* GetLocalGroupId(), MyProcPid and the transaction number
    errno,                  \* the C library's errno of this process
    build,                  \* width of long and strtol's errno on "no digits"
    parsed,                 \* what the last ParsePreparedTransactionName call did
    names                   \* the names written by the calls IdentifierSpec makes

\* the state of the prepared transaction names and of their parser
naming == <<process, errno, build, parsed, names>>

vars == <<tx, transactionInProgress, InProgressTransactions, modifiedPlacement,
          reply, connectionNumber, pc, session, assertChecking, caller, last,
          naming>>

\* RemoteTransactionState, in the order the Asserts' "<" comparisons rely on
\* ("can't prepare if already started to prepare/abort/commit",
\*  "can't commit if we already started to commit or abort")
StartedStates == {"REMOTE_TRANS_STARTING", "REMOTE_TRANS_STARTED"}

PrepareStates == {"REMOTE_TRANS_PREPARING", "REMOTE_TRANS_PREPARED"}

AbortingStates == {"REMOTE_TRANS_1PC_ABORTING", "REMOTE_TRANS_2PC_ABORTING"}

CommittingStates == {"REMOTE_TRANS_1PC_COMMITTING", "REMOTE_TRANS_2PC_COMMITTING"}

TerminalStates == {"REMOTE_TRANS_ABORTED", "REMOTE_TRANS_COMMITTED"}

RemoteTransactionState ==
    {"REMOTE_TRANS_NOT_STARTED"} \cup StartedStates \cup PrepareStates
        \cup AbortingStates \cup CommittingStates \cup TerminalStates

\* transactionState < REMOTE_TRANS_PREPARING
BeforePreparing(s) == s \in {"REMOTE_TRANS_NOT_STARTED"} \cup StartedStates

\* transactionState < REMOTE_TRANS_1PC_ABORTING
BeforeAborting(s) == BeforePreparing(s) \/ s \in PrepareStates

\* memset(transaction, 0, sizeof(*transaction))
ZeroTransaction ==
    [transactionState |-> "REMOTE_TRANS_NOT_STARTED",
     transactionFailed |-> FALSE,
     transactionCritical |-> FALSE,
     transactionRecovering |-> FALSE,
     preparedName |-> <<>>,
     lastSuccessfulSubXact |-> 0,
     lastQueuedSubXact |-> 0]

\* the control thread is with the caller, in no coordinated function
Idle ==
    [phase |-> "idle", stage |-> "none", i |-> 0, list |-> <<>>, subId |-> 0,
     ended |-> "none", raised |-> FALSE, started |-> {}]

\* the process was aborted by a failed Assert
Crashed ==
    [phase |-> "crashed", stage |-> "none", i |-> 0, list |-> <<>>, subId |-> 0,
     ended |-> "none", raised |-> FALSE, started |-> {}]

\* the coordinated function ended has just returned to the caller, by
\* ereport(ERROR) when raised
Returned(ended, raised) ==
    [phase |-> "returned", stage |-> "none", i |-> 0, list |-> <<>>, subId |-> 0,
     ended |-> ended, raised |-> raised, started |-> {}]

\* the control thread is in the first loop of coordinated function phase
Running(phase, list, subId) ==
    [phase |-> phase, stage |-> "start", i |-> 1, list |-> list, subId |-> subId,
     ended |-> "none", raised |-> FALSE, started |-> {}]

\* no Start/Finish call was made by the last step
NoCall ==
    [op |-> "none", conn |-> "none", pre |-> ZeroTransaction, cmd |-> "none",
     arg |-> <<>>, sendOk |-> TRUE, handlers |-> <<>>, notes |-> {},
     assertOk |-> TRUE, err |-> FALSE]

\* --------------------------------------------------------- failure classifier

\* a connection-error handler that promotes every failure of a critical
\* transaction, asked to or not
ConnectionErrorAlwaysPromoted(t, raiseErrors) ==
    [t |-> [t EXCEPT !.transactionFailed = TRUE],
     err |-> t.transactionCritical]

\* a result-error handler that raises for every transaction when asked to
ResultErrorRaisedForAll(t, raiseErrors) ==
    [t |-> [t EXCEPT !.transactionFailed = TRUE],
     err |-> raiseErrors]

\* the three handlers: transactionFailed = true, then ERROR iff
\* transactionCritical && raiseErrors, WARNING otherwise
HandleRemoteTransactionConnectionError(t, raiseErrors) ==
    [t |-> [t EXCEPT !.transactionFailed = TRUE],
     err |-> t.transactionCritical /\ raiseErrors]

HandleRemoteTransactionResultError(t, raiseErrors) ==
    [t |-> [t EXCEPT !.transactionFailed = TRUE],
     err |-> t.transactionCritical /\ raiseErrors]

MarkRemoteTransactionFailed(t, allowErrorPromotion) ==
    [t |-> [t EXCEPT !.transactionFailed = TRUE],
     err |-> t.transactionCritical /\ allowErrorPromotion]

\* one entry of last.handlers: which handler ran, with which raiseErrors,
\* and whether it left by ereport(ERROR)
Handled(kind, raiseErrors, h) ==
    [kind |-> kind, raiseErrors |-> raiseErrors, raised |-> h.err]

\* ClearResults(connection, raiseErrors) of remote_commands.c: drains the
\* pending results; a non-OK result marks the transaction failed with
\* MarkRemoteTransactionFailed(connection, raiseErrors) and makes it return
\* false.  clearOk is the outcome of the drain.
ClearResults(t, raiseErrors, clearOk) ==
    IF clearOk
    THEN [t |-> t, err |-> FALSE, success |-> TRUE, handlers |-> <<>>]
    ELSE LET m == MarkRemoteTransactionFailed(t, raiseErrors)
         IN  [t |-> m.t, err |-> m.err, success |-> FALSE,
              handlers |-> <<Handled("mark", raiseErrors, m)>>]

\* result of a Start/Finish call: the transaction afterwards, the command it
\* tried to send, whether the send succeeded, the handlers it ran, the
\* external calls it made besides (notes), whether its Asserts held, and
\* whether it left by ereport(ERROR)
Call(t, cmd, arg, sendOk, handlers, notes, assertOk, err) ==
    [t |-> t, cmd |-> cmd, arg |-> arg, sendOk |-> sendOk,
     handlers |-> handlers, notes |-> notes, assertOk |-> assertOk, err |-> err]


\* ------------------------------------------------------------------- begin

\* a BEGIN that remembers the outermost open sub-transaction
OutermostQueuedSubXact(active) ==
    IF active = <<>> THEN TopSubTransactionId ELSE active[1]

\* the sub-transaction the BEGIN command enters last: the deepest entry of
\* ActiveSubXactContexts(), TopSubTransactionId when none is open
LastQueuedSubXact(active) ==
    IF active = <<>> THEN TopSubTransactionId ELSE active[Len(active)]

StartRemoteTransactionBegin(t, active, sendOk) ==
    LET t1 == [t EXCEPT !.transactionState = "REMOTE_TRANS_STARTING",
                        !.lastSuccessfulSubXact = TopSubTransactionId,
                        !.lastQueuedSubXact = LastQueuedSubXact(active)]
        h == HandleRemoteTransactionConnectionError(t1, TRUE)
        assertOk == t.transactionState = "REMOTE_TRANS_NOT_STARTED"
    IN  IF sendOk
        THEN Call(t1, "BEGIN", active, TRUE, <<>>, {}, assertOk, FALSE)
        ELSE Call(h.t, "BEGIN", active, FALSE,
                  <<Handled("connection", TRUE, h)>>, {}, assertOk, h.err)

FinishRemoteTransactionBegin(t, clearOk) ==
    LET c == ClearResults(t, TRUE, clearOk)
        assertOk == t.transactionState = "REMOTE_TRANS_STARTING"
    IN  IF c.success
        THEN Call([c.t EXCEPT !.transactionState = "REMOTE_TRANS_STARTED",
                              !.lastSuccessfulSubXact = t.lastQueuedSubXact],
                  "none", <<>>, TRUE, c.handlers, {}, assertOk, FALSE)
        ELSE Call(c.t, "none", <<>>, TRUE, c.handlers, {}, assertOk, c.err)

\* ------------------------------------------------------------------ commit

\* a commit start that looks at PREPARED before it looks at transactionFailed
CommitStartPreparedFirst(t, sendOk) ==
    IF t.transactionState = "REMOTE_TRANS_PREPARED"
    THEN Call([t EXCEPT !.transactionState = "REMOTE_TRANS_2PC_COMMITTING"],
              "COMMIT PREPARED", t.preparedName, sendOk, <<>>, {}, TRUE, FALSE)
    ELSE IF t.transactionFailed
    THEN Call([t EXCEPT !.transactionState = "REMOTE_TRANS_1PC_ABORTING"],
              "ROLLBACK", <<>>, sendOk, <<>>, {"ForgetResults"}, TRUE, FALSE)
    ELSE Call([t EXCEPT !.transactionState = "REMOTE_TRANS_1PC_COMMITTING"],
              "COMMIT", <<>>, sendOk, <<>>, {}, TRUE, FALSE)

\* a commit finish that lets a bad result of a critical transaction raise
CommitFinishRaising(t, resultOk) ==
    LET h == HandleRemoteTransactionResultError(t, TRUE)
    IN  IF ~resultOk
        THEN Call(h.t, "none", <<>>, TRUE, <<Handled("result", FALSE, h)>>,
                  {"ForgetResults"}, TRUE, h.err)
        ELSE IF t.transactionState \in AbortingStates
        THEN Call([t EXCEPT !.transactionState = "REMOTE_TRANS_ABORTED"],
                  "none", <<>>, TRUE, <<>>, {"ForgetResults"}, TRUE, FALSE)
        ELSE Call([t EXCEPT !.transactionState = "REMOTE_TRANS_COMMITTED"],
                  "none", <<>>, TRUE, <<>>, {"ForgetResults"}, TRUE, FALSE)

\* a commit start that sends a failed transaction ROLLBACK but records it as
\* committing
CommitStartFailedAsCommitting(t, sendOk) ==
    LET assertOk == /\ t.transactionState # "REMOTE_TRANS_NOT_STARTED"
                    /\ BeforeAborting(t.transactionState)
    IN  IF t.transactionFailed
        THEN Call([t EXCEPT !.transactionState = "REMOTE_TRANS_1PC_COMMITTING"],
                  "ROLLBACK", <<>>, sendOk, <<>>, {"ForgetResults"}, assertOk, FALSE)
        ELSE IF t.transactionState = "REMOTE_TRANS_PREPARED"
        THEN LET t1 == [t EXCEPT !.transactionState = "REMOTE_TRANS_2PC_COMMITTING"]
                 h == HandleRemoteTransactionConnectionError(t1, FALSE)
             IN  IF sendOk
                 THEN Call(t1, "COMMIT PREPARED", t.preparedName, TRUE, <<>>, {},
                           assertOk, FALSE)
                 ELSE Call(h.t, "COMMIT PREPARED", t.preparedName, FALSE,
                           <<Handled("connection", FALSE, h)>>, {}, assertOk, h.err)
        ELSE LET t1 == [t EXCEPT !.transactionState = "REMOTE_TRANS_1PC_COMMITTING"]
                 h == HandleRemoteTransactionConnectionError(t1, FALSE)
             IN  IF sendOk
                 THEN Call(t1, "COMMIT", <<>>, TRUE, <<>>, {}, assertOk, FALSE)
                 ELSE Call(h.t, "COMMIT", <<>>, FALSE,
                           <<Handled("connection", FALSE, h)>>, {}, assertOk, h.err)

StartRemoteTransactionCommit(t, sendOk) ==
    LET assertOk == /\ t.transactionState # "REMOTE_TRANS_NOT_STARTED"
                    /\ BeforeAborting(t.transactionState)
    IN  IF t.transactionFailed
        THEN \* best-effort ROLLBACK, a failed send is not reported
             Call([t EXCEPT !.transactionState = "REMOTE_TRANS_1PC_ABORTING"],
                  "ROLLBACK", <<>>, sendOk, <<>>, {"ForgetResults"}, assertOk, FALSE)
        ELSE IF t.transactionState = "REMOTE_TRANS_PREPARED"
        THEN LET t1 == [t EXCEPT !.transactionState = "REMOTE_TRANS_2PC_COMMITTING"]
                 h == HandleRemoteTransactionConnectionError(t1, FALSE)
             IN  IF sendOk
                 THEN Call(t1, "COMMIT PREPARED", t.preparedName, TRUE, <<>>, {},
                           assertOk, FALSE)
                 ELSE Call(h.t, "COMMIT PREPARED", t.preparedName, FALSE,
                           <<Handled("connection", FALSE, h)>>, {}, assertOk, h.err)
        ELSE LET t1 == [t EXCEPT !.transactionState = "REMOTE_TRANS_1PC_COMMITTING"]
                 h == HandleRemoteTransactionConnectionError(t1, FALSE)
             IN  IF sendOk
                 THEN Call(t1, "COMMIT", <<>>, TRUE, <<>>, {}, assertOk, FALSE)
                 ELSE Call(h.t, "COMMIT", <<>>, FALSE,
                           <<Handled("connection", FALSE, h)>>, {}, assertOk, h.err)

\* a commit finish that takes every OK result for a commit
CommitFinishAlwaysCommitted(t, resultOk) ==
    LET assertOk == t.transactionState \in
                        {"REMOTE_TRANS_1PC_ABORTING", "REMOTE_TRANS_1PC_COMMITTING",
                         "REMOTE_TRANS_2PC_COMMITTING"}
        h == HandleRemoteTransactionResultError(t, FALSE)
    IN  IF ~resultOk
        THEN Call(h.t, "none", <<>>, TRUE, <<Handled("result", FALSE, h)>>,
                  {"ForgetResults"}, assertOk, h.err)
        ELSE Call([t EXCEPT !.transactionState = "REMOTE_TRANS_COMMITTED"],
                  "none", <<>>, TRUE, <<>>, {"ForgetResults"}, assertOk, FALSE)

FinishRemoteTransactionCommit(t, resultOk) ==
    LET assertOk == t.transactionState \in
                        {"REMOTE_TRANS_1PC_ABORTING", "REMOTE_TRANS_1PC_COMMITTING",
                         "REMOTE_TRANS_2PC_COMMITTING"}
        h == HandleRemoteTransactionResultError(t, FALSE)
    IN  IF ~resultOk
        THEN \* only WARNINGs: the state is left as it is
             Call(h.t, "none", <<>>, TRUE, <<Handled("result", FALSE, h)>>,
                  {"ForgetResults"}, assertOk, h.err)
        ELSE IF t.transactionState \in AbortingStates
        THEN Call([t EXCEPT !.transactionState = "REMOTE_TRANS_ABORTED"],
                  "none", <<>>, TRUE, <<>>, {"ForgetResults"}, assertOk, FALSE)
        ELSE Call([t EXCEPT !.transactionState = "REMOTE_TRANS_COMMITTED"],
                  "none", <<>>, TRUE, <<>>, {"ForgetResults"}, assertOk, FALSE)

\* ------------------------------------------------------------------- abort

\* an abort start that sends ROLLBACK PREPARED only once PREPARED was reached
AbortStartPreparedOnly(t, readyOk, sendOk) ==
    IF t.transactionState = "REMOTE_TRANS_PREPARED"
    THEN Call([t EXCEPT !.transactionState = "REMOTE_TRANS_2PC_ABORTING"],
              "ROLLBACK PREPARED", t.preparedName, TRUE, <<>>,
              {"ForgetResults"}, TRUE, FALSE)
    ELSE Call([t EXCEPT !.transactionState = "REMOTE_TRANS_1PC_ABORTING"],
              "ROLLBACK", <<>>, TRUE, <<>>, {}, TRUE, FALSE)

StartRemoteTransactionAbort(t, readyOk, sendOk) ==
    LET assertOk == t.transactionState # "REMOTE_TRANS_NOT_STARTED"
    IN  IF t.transactionState \in PrepareStates
        THEN LET h == HandleRemoteTransactionConnectionError(t, FALSE)
             IN  IF sendOk
                 THEN Call([t EXCEPT !.transactionState = "REMOTE_TRANS_2PC_ABORTING"],
                           "ROLLBACK PREPARED", t.preparedName, TRUE, <<>>,
                           {"ForgetResults"}, assertOk, FALSE)
                 ELSE Call(h.t, "ROLLBACK PREPARED", t.preparedName, FALSE,
                           <<Handled("connection", FALSE, h)>>, {"ForgetResults"},
                           assertOk, h.err)
        ELSE IF ~readyOk
        THEN \* ClearResultsIfReady failed: close the connection, send nothing
             Call(t, "none", <<>>, TRUE, <<>>, {"ShutdownConnection"}, assertOk, FALSE)
        ELSE LET m == MarkRemoteTransactionFailed(t, FALSE)
             IN  IF sendOk
                 THEN Call([t EXCEPT !.transactionState = "REMOTE_TRANS_1PC_ABORTING"],
                           "ROLLBACK", <<>>, TRUE, <<>>, {}, assertOk, FALSE)
                 ELSE Call(m.t, "ROLLBACK", <<>>, FALSE,
                           <<Handled("mark", FALSE, m)>>, {}, assertOk, m.err)

\* an abort finish that forgets the failure once the transaction is ABORTED
AbortFinishClearsFailed(t, resultOk, clearOk) ==
    LET h == HandleRemoteTransactionResultError(t, FALSE)
        bad == t.transactionState = "REMOTE_TRANS_2PC_ABORTING" /\ ~resultOk
        t1 == IF bad THEN h.t ELSE t
        hs1 == IF bad THEN <<Handled("result", FALSE, h)>> ELSE <<>>
        c == ClearResults(t1, FALSE, clearOk)
    IN  IF bad /\ h.err
        THEN Call(h.t, "none", <<>>, TRUE, hs1, {}, TRUE, TRUE)
        ELSE IF c.err
        THEN Call(c.t, "none", <<>>, TRUE, hs1 \o c.handlers, {}, TRUE, TRUE)
        ELSE Call([c.t EXCEPT !.transactionState = "REMOTE_TRANS_ABORTED",
                              !.transactionFailed = FALSE],
                  "none", <<>>, TRUE, hs1 \o c.handlers,
                  IF c.success THEN {} ELSE {"ShutdownConnection"}, TRUE, FALSE)

FinishRemoteTransactionAbort(t, resultOk, clearOk) ==
    LET h == HandleRemoteTransactionResultError(t, FALSE)
        bad == t.transactionState = "REMOTE_TRANS_2PC_ABORTING" /\ ~resultOk
        t1 == IF bad THEN h.t ELSE t
        hs1 == IF bad THEN <<Handled("result", FALSE, h)>> ELSE <<>>
        c == ClearResults(t1, FALSE, clearOk)
    IN  IF bad /\ h.err
        THEN Call(h.t, "none", <<>>, TRUE, hs1, {}, TRUE, TRUE)
        ELSE IF c.err
        THEN Call(c.t, "none", <<>>, TRUE, hs1 \o c.handlers, {}, TRUE, TRUE)
        ELSE Call([c.t EXCEPT !.transactionState = "REMOTE_TRANS_ABORTED"],
                  "none", <<>>, TRUE, hs1 \o c.handlers,
                  IF c.success THEN {} ELSE {"ShutdownConnection"}, TRUE, FALSE)


\* ------------------------------------------------ prepared transaction names

\* The bits of int, int32 and uint32 (32 in the program).  long has as many
\* bits, or twice as many where it is a 64 bit type; uint64 has twice as many.
IntBits == 3

INT_MAX == 2^(IntBits - 1) - 1
UINT_MAX == 2^IntBits - 1
ULLONG_MAX == 2^(2 * IntBits) - 1
LONG_MAX(b) == 2^(b.longBits - 1) - 1
ULONG_MAX(b) == 2^b.longBits - 1

COORDINATOR_GROUP_ID == 0

\* what the compiler and the C library decide: the width of long, and whether
\* a conversion that finds no digits sets errno to EINVAL (it "may")
Builds == [longBits : {IntBits, 2 * IntBits}, noDigitsIsEINVAL : BOOLEAN]

\* long of 64 bits, errno untouched when there are no digits
LP64Build == [longBits |-> 2 * IntBits, noDigitsIsEINVAL |-> FALSE]

ErrnoValues == {"0", "EINVAL", "ERANGE"}

\* a process on the coordinator in its first distributed transaction
CoordinatorProcess == [groupId |-> 0, pid |-> 1, transactionNumber |-> 1]

\* a C string is the sequence of its characters; the terminating NUL is at
\* Len + 1
Digit == <<"0", "1", "2", "3", "4", "5", "6", "7", "8", "9">>

IsDigit(ch) == \E k \in 1..10 : Digit[k] = ch

DigitValue(ch) == (CHOOSE k \in 1..10 : Digit[k] = ch) - 1

\* "%u" and UINT64_FORMAT: the decimal digits of an unsigned number
RECURSIVE ToDecimal(_)
ToDecimal(n) ==
    IF n < 10
    THEN <<Digit[n + 1]>>
    ELSE ToDecimal(n \div 10) \o <<Digit[(n % 10) + 1]>>

\* "citus_%u_%u_" UINT64_FORMAT "_%u": every argument is printed as unsigned
PREPARED_TRANSACTION_NAME_FORMAT(groupId, pid, transactionNumber, number) ==
    <<"c", "i", "t", "u", "s", "_">>
        \o ToDecimal(groupId % 2^IntBits) \o <<"_">>
        \o ToDecimal(pid % 2^IntBits) \o <<"_">>
        \o ToDecimal(transactionNumber % 2^(2 * IntBits)) \o <<"_">>
        \o ToDecimal(number % 2^IntBits)

\* a strchr that returns the end of the string where it finds no ch
StrchrReturnsEnd(s, from, ch) ==
    LET hits == {i \in from..Len(s) : s[i] = ch}
    IN  IF hits = {}
        THEN [at |-> IF from > Len(s) + 1 THEN from ELSE Len(s) + 1,
              reach |-> IF from > Len(s) + 1 THEN from ELSE Len(s) + 1]
        ELSE LET m == CHOOSE i \in hits : \A j \in hits : i <= j
             IN  [at |-> m, reach |-> m]

\* strchr from position from: at is the position of the first ch (0 for NULL),
\* reach the last position it read
strchr(s, from, ch) ==
    LET hits == {i \in from..Len(s) : s[i] = ch}
    IN  IF hits = {}
        THEN [at |-> 0, reach |-> IF from > Len(s) + 1 THEN from ELSE Len(s) + 1]
        ELSE LET m == CHOOSE i \in hits : \A j \in hits : i <= j
             IN  [at |-> m, reach |-> m]

\* the position of the first character from position from that is no digit
DigitsEnd(s, from) ==
    IF from > Len(s)
    THEN from
    ELSE CHOOSE e \in from..(Len(s) + 1) :
             /\ \A i \in from..(e - 1) : IsDigit(s[i])
             /\ e = Len(s) + 1 \/ ~IsDigit(s[e])

\* the value of the digits s[from..to-1], or max + 1 if it is larger than max
RECURSIVE DecimalValue(_, _, _, _)
DecimalValue(s, from, to, max) ==
    IF to <= from
    THEN 0
    ELSE LET v == DecimalValue(s, from, to - 1, max) * 10 + DigitValue(s[to - 1])
         IN  IF v > max THEN max + 1 ELSE v

\* strtol, strtoul and strtoull in base 10 on a string without blanks and
\* signs, endptr NULL: no digits give 0, a value above max gives max and
\* ERANGE, and a successful conversion leaves errno as it was (e0)
Conversion(s, from, max, e0, b) ==
    LET e == DigitsEnd(s, from)
        v == DecimalValue(s, from, e, max)
    IN  IF e = from
        THEN [value |-> 0, errno |-> IF b.noDigitsIsEINVAL THEN "EINVAL" ELSE e0,
              reach |-> e]
        ELSE IF v > max
        THEN [value |-> max, errno |-> "ERANGE", reach |-> e]
        ELSE [value |-> v, errno |-> e0, reach |-> e]

strtol(s, from, e0, b) == Conversion(s, from, LONG_MAX(b), e0, b)

strtoul(s, from, e0, b) == Conversion(s, from, ULONG_MAX(b), e0, b)

strtou64(s, from, e0, b) == Conversion(s, from, ULLONG_MAX, e0, b)

\* the assignment of a long to an int32 or an int, and of an unsigned long to
\* a uint32
ToInt32(v) == ((v + 2^(IntBits - 1)) % 2^IntBits) - 2^(IntBits - 1)

ToUInt32(v) == v % 2^IntBits

\* the outcome of a call: out are the output arguments assigned so far, in
\* order, errno the value the call leaves, reach the last position read
ParseResult(result, out, e, reach) ==
    [result |-> result, out |-> out, errno |-> e, reach |-> reach]

ParsePreparedTransactionName(preparedTransactionName, e0, b) ==
    LET s == preparedTransactionName
        p1 == strchr(s, 1, "_")
        n1 == strtol(s, p1.at + 1, e0, b)
        groupId == ToInt32(n1.value)
        p2 == strchr(s, p1.at + 1, "_")
        n2 == strtol(s, p2.at + 1, n1.errno, b)
        procId == ToInt32(n2.value)
        p3 == strchr(s, p2.at + 1, "_")
        n3 == strtou64(s, p3.at + 1, n2.errno, b)
        transactionNumber == n3.value
        p4 == strchr(s, p3.at + 1, "_")
        n4 == strtoul(s, p4.at + 1, n3.errno, b)
        number == ToUInt32(n4.value)
    IN  IF p1.at = 0
        THEN ParseResult(FALSE, <<>>, e0, p1.reach)
        ELSE IF \/ groupId = COORDINATOR_GROUP_ID /\ n1.errno = "EINVAL"
                \/ groupId = INT_MAX /\ n1.errno = "ERANGE"
        THEN ParseResult(FALSE, <<groupId>>, n1.errno, n1.reach)
        ELSE IF p2.at = 0
        THEN ParseResult(FALSE, <<groupId>>, n1.errno, p2.reach)
        ELSE IF \/ procId = 0 /\ n2.errno = "EINVAL"
                \/ procId = INT_MAX /\ n2.errno = "ERANGE"
        THEN ParseResult(FALSE, <<groupId, procId>>, n2.errno, n2.reach)
        ELSE IF p3.at = 0
        THEN ParseResult(FALSE, <<groupId, procId>>, n2.errno, p3.reach)
        ELSE IF \/ transactionNumber = 0 /\ n3.errno # "0"
                \/ transactionNumber = ULLONG_MAX /\ n3.errno = "ERANGE"
        THEN ParseResult(FALSE, <<groupId, procId, transactionNumber>>,
                         n3.errno, n3.reach)
        ELSE IF p4.at = 0
        THEN ParseResult(FALSE, <<groupId, procId, transactionNumber>>,
                         n3.errno, p4.reach)
        ELSE IF \/ number = 0 /\ n4.errno = "EINVAL"
                \/ number = UINT_MAX /\ n4.errno = "ERANGE"
        THEN ParseResult(FALSE, <<groupId, procId, transactionNumber, number>>,
                         n4.errno, n4.reach)
        ELSE ParseResult(TRUE, <<groupId, procId, transactionNumber, number>>,
                         n4.errno, n4.reach)

\* no call of the parser yet
NoParse ==
    [name |-> <<>>, from |-> <<>>, errnoBefore |-> "0", result |-> FALSE,
     out |-> <<>>, reach |-> 0, called |-> FALSE]


\* ----------------------------------------------------------------- prepare

\* the name snprintf writes for connection number n (group id, pid and
\* transaction number are those of the process)
PreparedTransactionName(n) ==
    PREPARED_TRANSACTION_NAME_FORMAT(process.groupId, process.pid,
                                     process.transactionNumber, n)

\* a counter that stays where it is
CounterNotAdvanced(n) == n

\* connectionNumber++ on the static uint32: the value after the call
PostIncrement(n) == (n + 1) % 2^IntBits

\* Assign2PCIdentifier: the name for the current connectionNumber (the
\* counter itself is advanced by the step that makes the call)
Assign2PCIdentifier(t, n) == [t EXCEPT !.preparedName = PreparedTransactionName(n)]


\* the transaction is logged in pg_dist_transaction when FindWorkerNode found
\* the node of the connection
WorkerNodeFound == BOOLEAN

LogTransactionRecord(workerFound) ==
    IF workerFound THEN {"LogTransactionRecord"} ELSE {}

\* a prepare start without the third Assert
PrepareStartAssertsTwo(t, n, workerFound, sendOk) ==
    LET assertOk == /\ t.transactionState # "REMOTE_TRANS_NOT_STARTED"
                    /\ ~t.transactionFailed
        t1 == Assign2PCIdentifier(t, n)
        h == HandleRemoteTransactionConnectionError(t1, TRUE)
    IN  IF sendOk
        THEN Call([t1 EXCEPT !.transactionState = "REMOTE_TRANS_PREPARING"],
                  "PREPARE TRANSACTION", t1.preparedName, TRUE, <<>>,
                  LogTransactionRecord(workerFound), assertOk, FALSE)
        ELSE Call(h.t, "PREPARE TRANSACTION", t1.preparedName, FALSE,
                  <<Handled("connection", TRUE, h)>>, LogTransactionRecord(workerFound),
                  assertOk, h.err)

\* a prepare start that takes the command for sent whatever SendRemoteCommand
\* returned
PrepareStartIgnoresSend(t, n, workerFound, sendOk) ==
    LET assertOk == /\ t.transactionState # "REMOTE_TRANS_NOT_STARTED"
                    /\ ~t.transactionFailed
                    /\ BeforePreparing(t.transactionState)
        t1 == Assign2PCIdentifier(t, n)
    IN  Call([t1 EXCEPT !.transactionState = "REMOTE_TRANS_PREPARING"],
             "PREPARE TRANSACTION", t1.preparedName, sendOk, <<>>,
             LogTransactionRecord(workerFound), assertOk, FALSE)

StartRemoteTransactionPrepare(t, n, workerFound, sendOk) ==
    LET assertOk == /\ t.transactionState # "REMOTE_TRANS_NOT_STARTED"
                    /\ ~t.transactionFailed
                    /\ BeforePreparing(t.transactionState)
        t1 == Assign2PCIdentifier(t, n)
        h == HandleRemoteTransactionConnectionError(t1, TRUE)
    IN  IF sendOk
        THEN Call([t1 EXCEPT !.transactionState = "REMOTE_TRANS_PREPARING"],
                  "PREPARE TRANSACTION", t1.preparedName, TRUE, <<>>,
                  LogTransactionRecord(workerFound), assertOk, FALSE)
        ELSE Call(h.t, "PREPARE TRANSACTION", t1.preparedName, FALSE,
                  <<Handled("connection", TRUE, h)>>, LogTransactionRecord(workerFound),
                  assertOk, h.err)

\* a prepare finish that leaves the transaction open after a bad result
PrepareFinishKeepsOpen(t, resultOk, clearOk) ==
    LET h == HandleRemoteTransactionResultError(
                 [t EXCEPT !.transactionState = "REMOTE_TRANS_STARTED"], TRUE)
    IN  IF resultOk
        THEN Call([t EXCEPT !.transactionState = "REMOTE_TRANS_PREPARED"],
                  "none", <<>>, TRUE, <<>>, {}, TRUE, ~clearOk)
        ELSE Call(h.t, "none", <<>>, TRUE, <<Handled("result", TRUE, h)>>, {},
                  TRUE, h.err \/ ~clearOk)

FinishRemoteTransactionPrepare(t, resultOk, clearOk) ==
    LET assertOk == t.transactionState = "REMOTE_TRANS_PREPARING"
        h == HandleRemoteTransactionResultError(
                 [t EXCEPT !.transactionState = "REMOTE_TRANS_ABORTED"], TRUE)
        t1 == IF resultOk
              THEN [t EXCEPT !.transactionState = "REMOTE_TRANS_PREPARED"]
              ELSE h.t
        hs1 == IF resultOk THEN <<>> ELSE <<Handled("result", TRUE, h)>>
        c == ClearResults(t1, TRUE, clearOk)
    IN  IF ~resultOk /\ h.err
        THEN Call(h.t, "none", <<>>, TRUE, hs1, {}, assertOk, TRUE)
        ELSE \* a failed drain is an ERROR of its own ("Try re-running the command.")
             Call(c.t, "none", <<>>, TRUE, hs1 \o c.handlers, {}, assertOk,
                  c.err \/ ~c.success)

\* -------------------------------------------------------------- savepoints

StartRemoteTransactionSavepointBegin(t, subId, sendOk) ==
    LET h == HandleRemoteTransactionConnectionError(t, TRUE)
    IN  IF sendOk
        THEN Call(t, "SAVEPOINT", <<subId>>, TRUE, <<>>, {}, TRUE, FALSE)
        ELSE Call(h.t, "SAVEPOINT", <<subId>>, FALSE,
                  <<Handled("connection", TRUE, h)>>, {}, TRUE, h.err)

FinishRemoteTransactionSavepointBegin(t, subId, resultOk) ==
    LET h == HandleRemoteTransactionResultError(t, TRUE)
    IN  IF resultOk
        THEN Call(t, "none", <<>>, TRUE, <<>>, {"ForgetResults"}, TRUE, FALSE)
        ELSE Call(h.t, "none", <<>>, TRUE, <<Handled("result", TRUE, h)>>,
                  IF h.err THEN {} ELSE {"ForgetResults"}, TRUE, h.err)

StartRemoteTransactionSavepointRelease(t, subId, sendOk) ==
    LET h == HandleRemoteTransactionConnectionError(t, TRUE)
    IN  IF sendOk
        THEN Call(t, "RELEASE SAVEPOINT", <<subId>>, TRUE, <<>>, {}, TRUE, FALSE)
        ELSE Call(h.t, "RELEASE SAVEPOINT", <<subId>>, FALSE,
                  <<Handled("connection", TRUE, h)>>, {}, TRUE, h.err)

FinishRemoteTransactionSavepointRelease(t, subId, resultOk) ==
    LET h == HandleRemoteTransactionResultError(t, TRUE)
    IN  IF resultOk
        THEN Call(t, "none", <<>>, TRUE, <<>>, {"ForgetResults"}, TRUE, FALSE)
        ELSE Call(h.t, "none", <<>>, TRUE, <<Handled("result", TRUE, h)>>,
                  IF h.err THEN {} ELSE {"ForgetResults"}, TRUE, h.err)

\* a rollback start that lets a failed send of a critical transaction raise
RollbackStartRaises(t, subId, sendOk) ==
    LET h == HandleRemoteTransactionConnectionError(t, TRUE)
    IN  IF sendOk
        THEN Call(t, "ROLLBACK TO SAVEPOINT", <<subId>>, TRUE, <<>>, {}, TRUE, FALSE)
        ELSE Call(h.t, "ROLLBACK TO SAVEPOINT", <<subId>>, FALSE,
                  <<Handled("connection", TRUE, h)>>, {}, TRUE, h.err)

StartRemoteTransactionSavepointRollback(t, subId, sendOk) ==
    LET h == HandleRemoteTransactionConnectionError(t, FALSE)
    IN  IF sendOk
        THEN Call(t, "ROLLBACK TO SAVEPOINT", <<subId>>, TRUE, <<>>, {}, TRUE, FALSE)
        ELSE Call(h.t, "ROLLBACK TO SAVEPOINT", <<subId>>, FALSE,
                  <<Handled("connection", FALSE, h)>>, {}, TRUE, h.err)

\* a finish that resets the state only after a successful recovery
RollbackFinishResetsOnRecovery(t, subId, resultOk) ==
    LET h == HandleRemoteTransactionResultError(t, FALSE)
    IN  IF ~resultOk
        THEN Call(h.t, "none", <<>>, TRUE, <<Handled("result", FALSE, h)>>,
                  {"ForgetResults"}, TRUE, h.err)
        ELSE IF t.transactionRecovering
        THEN Call([t EXCEPT !.transactionFailed = FALSE,
                            !.transactionRecovering = FALSE,
                            !.transactionState = "REMOTE_TRANS_STARTED"],
                  "none", <<>>, TRUE, <<>>, {"ForgetResults"}, TRUE, FALSE)
        ELSE Call(t, "none", <<>>, TRUE, <<>>, {"ForgetResults"}, TRUE, FALSE)

FinishRemoteTransactionSavepointRollback(t, subId, resultOk) ==
    LET h == HandleRemoteTransactionResultError(t, FALSE)
        t1 == IF ~resultOk THEN h.t
              ELSE IF t.transactionRecovering
              THEN [t EXCEPT !.transactionFailed = FALSE,
                             !.transactionRecovering = FALSE]
              ELSE t
    IN  IF ~resultOk /\ h.err
        THEN Call(h.t, "none", <<>>, TRUE, <<Handled("result", FALSE, h)>>, {},
                  TRUE, TRUE)
        ELSE \* the state is reset whatever the result was
             Call([t1 EXCEPT !.transactionState = "REMOTE_TRANS_STARTED"],
                  "none", <<>>, TRUE,
                  IF resultOk THEN <<>> ELSE <<Handled("result", FALSE, h)>>,
                  {"ForgetResults"}, TRUE, FALSE)


\* ------------------------------------------------------------ health check

\* a health check that marks but never raises
HealthCheckOnlyMarks(t, status) ==
    Call(IF status \in {"PQTRANS_INERROR", "PQTRANS_UNKNOWN"}
         THEN [t EXCEPT !.transactionFailed = TRUE]
         ELSE t,
         "none", <<status>>, TRUE, <<>>, {}, TRUE, FALSE)

\* one iteration of the loop of CheckRemoteTransactionsHealth; status is
\* PQtransactionStatus(connection->pgConn)
\* a health check that takes PQTRANS_UNKNOWN for a healthy connection
HealthCheckTrustsUnknown(t, status) ==
    LET t1 == IF status = "PQTRANS_INERROR"
              THEN [t EXCEPT !.transactionFailed = TRUE]
              ELSE t
    IN  Call(t1, "none", <<status>>, TRUE, <<>>, {}, TRUE,
             t1.transactionFailed /\ t1.transactionCritical)

CheckRemoteTransactionHealth(t, status) ==
    LET t1 == IF status \in {"PQTRANS_INERROR", "PQTRANS_UNKNOWN"}
              THEN [t EXCEPT !.transactionFailed = TRUE]
              ELSE t
    IN  Call(t1, "none", <<status>>, TRUE, <<>>, {}, TRUE,
             t1.transactionFailed /\ t1.transactionCritical)

\* ---------------------------------------------------------------- registry

\* dlist_push_tail(&InProgressTransactions, &connection->transactionNode)
DListPushTail(list, c) == Append(list, c)

\* an unlink that fills the hole with the last node
DListDeleteMovesLast(list, c) ==
    LET n == Len(list)
        i == CHOOSE k \in 1..n : list[k] = c
    IN  [k \in 1..(n - 1) |-> IF k = i THEN list[n] ELSE list[k]]

\* dlist_delete(&connection->transactionNode)
DListDelete(list, c) == SelectSeq(list, LAMBDA x : x # c)

\* ------------------------------------------------------------------ caller
\* The transaction manager that calls the coordinated functions.  With
\* caller = "any" it calls them in any order.  Otherwise it runs local
\* transactions without savepoints and keeps the commit protocol: statements
\* (begin, writes) while "running", then the prepare phase, the health check
\* and the commit phase, each only after the previous one returned without
\* ERROR; an ERROR, or a decision to roll back, leads to the abort phase; the
\* connections are reset after the commit or abort phase and the next
\* transaction starts.

\* the caller may enter coordinated function phase now
CallAllowed(phase) ==
    \/ caller = "any"
    \/ phase = "begin" /\ caller = "running"
    \/ phase = "begin" /\ caller = "ended" /\ InProgressTransactions = <<>>
    \/ phase = "prepare" /\ caller = "running"
    \/ phase = "health" /\ caller = "prepared"
    \/ phase = "commit" /\ caller = "checked"
    \/ phase = "abort" /\ caller \in {"running", "prepared", "checked", "failed"}

\* the caller after a step that leaves the control thread at position p
CallerNext(p) ==
    IF caller = "any" THEN "any"
    ELSE IF p.phase = "prepare" THEN "preparing"
    ELSE IF p.phase = "health" THEN "checking"
    ELSE IF p.phase = "commit" THEN "committing"
    ELSE IF p.phase = "abort" THEN "aborting"
    ELSE IF p.phase = "begin" THEN "running"
    ELSE IF p.phase # "returned" THEN caller
    ELSE IF p.ended \in {"commit", "abort"} THEN "ended"
    ELSE IF p.raised THEN "failed"
    ELSE IF p.ended = "prepare" THEN "prepared"
    ELSE IF p.ended = "health" THEN "checked"
    ELSE caller

\* ------------------------------------------------------------ loop control

Cur == pc.list[pc.i]

InLoop(phase, stage) ==
    /\ pc.phase = phase
    /\ pc.stage = stage
    /\ pc.i <= Len(pc.list)

\* the observation of a Start/Finish call on connection c, made with
\* transaction pre, that returned res
Record(op, c, pre, res) ==
    [op |-> op, conn |-> c, pre |-> pre, cmd |-> res.cmd, arg |-> res.arg,
     sendOk |-> res.sendOk, handlers |-> res.handlers, notes |-> res.notes,
     assertOk |-> res.assertOk, err |-> res.err]

\* the calls a first loop makes; the connection of each is appended to the
\* connectionList of the coordinated function, kept in pc.started (for
\* begin-if-necessary, whose connectionList is its argument, pc.started is the
\* connections that BEGIN was started on)
StartCalls ==
    {"StartRemoteTransactionBegin", "StartRemoteTransactionPrepare",
     "StartRemoteTransactionCommit", "StartRemoteTransactionAbort",
     "StartRemoteTransactionSavepointBegin",
     "StartRemoteTransactionSavepointRelease",
     "StartRemoteTransactionSavepointRollback"}

\* next iteration, or out of the coordinated function by ereport(ERROR)
Proceed(err) ==
    IF err THEN Returned(pc.phase, TRUE) ELSE [pc EXCEPT !.i = pc.i + 1]

\* the loop body does "continue" for the current connection
Skip ==
    /\ pc' = Proceed(FALSE)
    /\ caller' = CallerNext(pc')
    /\ last' = NoCall
    /\ UNCHANGED <<tx, transactionInProgress, InProgressTransactions,
                   modifiedPlacement, reply, connectionNumber, session, assertChecking, naming>>

\* an Assert of the call fails in a build that checks them: the process
\* aborts before the call does anything
Crash(res) == assertChecking /\ ~res.assertOk

\* a Start/Finish call on the current connection returned res and left the
\* remote answer newReply in flight
Step(op, pre, res, newReply) ==
    /\ tx' = IF Crash(res) THEN tx ELSE [tx EXCEPT ![Cur] = res.t]
    /\ reply' = IF Crash(res) THEN reply ELSE [reply EXCEPT ![Cur] = newReply]
    /\ last' = IF Crash(res)
               THEN [NoCall EXCEPT !.op = op, !.conn = Cur, !.pre = pre,
                                   !.assertOk = FALSE]
               ELSE Record(op, Cur, pre, res)
    /\ pc' = IF Crash(res) THEN Crashed
             ELSE IF res.err \/ op \notin StartCalls THEN Proceed(res.err)
             ELSE [Proceed(FALSE) EXCEPT !.started = pc.started \cup {Cur}]
    /\ caller' = CallerNext(pc')
    /\ UNCHANGED <<session, assertChecking, naming>>

\* the remote answer to a command: none arrives for a command that was not
\* sent, and GetRemoteCommandResult then returns NULL (not IsResponseOK)
Answer(sendOk, r) == IF sendOk THEN r ELSE "lost"

\* the answer once it was read or drained: a second read gets NULL
Consumed(r) ==
    IF r = "ok" THEN "was_ok" ELSE IF r = "bad" THEN "was_bad" ELSE r

\* entering a coordinated function that loops over InProgressTransactions
Enter(phase, subId) ==
    /\ pc.phase = "idle"
    /\ CallAllowed(phase)
    /\ UNCHANGED <<session, assertChecking, naming>>
    /\ pc' = Running(phase, InProgressTransactions, subId)
    /\ caller' = CallerNext(pc')
    /\ last' = NoCall
    /\ UNCHANGED <<tx, transactionInProgress, InProgressTransactions,
                   modifiedPlacement, reply, connectionNumber>>

\* a wait that is entered before the last connection was started
WaitBeforeLastStart ==
    /\ pc.stage = "start"
    /\ pc.phase # "health"
    /\ pc.i >= Len(pc.list)
    /\ pc' = [pc EXCEPT !.stage = "finish", !.i = 1]
    /\ caller' = CallerNext(pc')
    /\ last' = NoCall
    /\ UNCHANGED <<tx, transactionInProgress, InProgressTransactions,
                   modifiedPlacement, reply, connectionNumber, session, assertChecking, naming>>

\* WaitForAllConnections between the two loops
WaitForAllConnections ==
    /\ pc.stage = "start"
    /\ pc.phase # "health"
    /\ pc.i > Len(pc.list)
    /\ pc' = [pc EXCEPT !.stage = "finish", !.i = 1]
    /\ caller' = CallerNext(pc')
    /\ last' = NoCall
    /\ UNCHANGED <<tx, transactionInProgress, InProgressTransactions,
                   modifiedPlacement, reply, connectionNumber, session, assertChecking, naming>>

\* the coordinated function returns after its last loop
Return ==
    /\ \/ pc.stage = "finish"
       \/ pc.stage = "start" /\ pc.phase = "health"
    /\ pc.i > Len(pc.list)
    /\ pc' = Returned(pc.phase, FALSE)
    /\ caller' = CallerNext(pc')
    /\ last' = NoCall
    /\ UNCHANGED <<tx, transactionInProgress, InProgressTransactions,
                   modifiedPlacement, reply, connectionNumber, session, assertChecking, naming>>


\* the caller has seen the outcome and goes on
Resume ==
    /\ pc.phase = "returned"
    /\ pc' = Idle
    /\ last' = NoCall
    /\ UNCHANGED <<tx, transactionInProgress, InProgressTransactions,
                   modifiedPlacement, reply, connectionNumber, session, assertChecking, naming, caller>>

\* ----------------------------------------------------------------- statics

\* the lists ActiveSubXactContexts() can return: the open sub-transactions,
\* outermost first
ActiveSubXactChoices ==
    IF caller = "any"
    THEN {<<>>} \cup {<<a>> : a \in SubIds}
                \cup {p \in SubIds \X SubIds : p[1] < p[2]}
    ELSE {<<>>}

\* the connection lists handed to RemoteTransactionsBeginIfNecessary
ConnectionLists ==
    {<<a>> : a \in session} \cup {p \in session \X session : p[1] # p[2]}

Replies == {"ok", "bad"}

TransactionStatus == {"PQTRANS_INTRANS", "PQTRANS_INERROR", "PQTRANS_UNKNOWN"}

Init ==
    /\ tx = [c \in Conns |-> ZeroTransaction]
    /\ transactionInProgress = [c \in Conns |-> FALSE]
    /\ InProgressTransactions = <<>>
    /\ modifiedPlacement = [c \in Conns |-> FALSE]
    /\ reply = [c \in Conns |-> "none"]
    /\ connectionNumber = 0
    /\ pc = Idle
    /\ session = FreeSession
    /\ assertChecking \in BOOLEAN
    /\ caller = "any"
    /\ last = NoCall
    /\ process = CoordinatorProcess
    /\ errno = "0"
    /\ build = LP64Build
    /\ parsed = NoParse
    /\ names = <<>>

\* --------------------------------------- RemoteTransactionsBeginIfNecessary

CallBeginIfNecessary ==
    /\ pc.phase = "idle"
    /\ CallAllowed("begin")
    /\ UNCHANGED <<session, assertChecking, naming>>
    /\ \E list \in ConnectionLists : pc' = Running("begin", list, 0)
    /\ caller' = CallerNext(pc')
    /\ last' = NoCall
    /\ UNCHANGED <<tx, transactionInProgress, InProgressTransactions,
                   modifiedPlacement, reply, connectionNumber>>

BeginIfNecessaryStart ==
    /\ InLoop("begin", "start")
    /\ IF tx[Cur].transactionState # "REMOTE_TRANS_NOT_STARTED"
       THEN Skip
       ELSE \E active \in ActiveSubXactChoices, sendOk \in BOOLEAN :
                /\ Step("StartRemoteTransactionBegin", tx[Cur],
                        StartRemoteTransactionBegin(tx[Cur], active, sendOk),
                        "none")
                /\ InProgressTransactions' = DListPushTail(InProgressTransactions, Cur)
                /\ transactionInProgress' = [transactionInProgress EXCEPT ![Cur] = TRUE]
                /\ UNCHANGED <<modifiedPlacement, connectionNumber>>

BeginIfNecessaryFinish ==
    /\ InLoop("begin", "finish")
    /\ IF \/ tx[Cur].transactionFailed
          \/ tx[Cur].transactionState # "REMOTE_TRANS_STARTING"
       THEN Skip
       ELSE \E clearOk \in BOOLEAN :
                /\ Step("FinishRemoteTransactionBegin", tx[Cur],
                        FinishRemoteTransactionBegin(tx[Cur], clearOk), "none")
                /\ UNCHANGED <<transactionInProgress, InProgressTransactions,
                               modifiedPlacement, connectionNumber>>

\* ------------------------------------- CoordinatedRemoteTransactionsPrepare

\* a prepare phase that skips failed transactions only
PrepareSkipsFailedOnly(t, modified) == t.transactionFailed

\* the first loop skips a failed transaction and a connection that wrote to
\* no placement
PrepareSkips(t, modified) == t.transactionFailed \/ ~modified

CallPrepare ==
    /\ connectionNumber + Len(InProgressTransactions) <= MaxConnectionNumber
    /\ Enter("prepare", 0)

PrepareStart ==
    /\ InLoop("prepare", "start")
    /\ IF PrepareSkips(tx[Cur], modifiedPlacement[Cur])
       THEN Skip
       ELSE \E workerFound \in WorkerNodeFound, sendOk \in BOOLEAN, r \in Replies :
                /\ Step("StartRemoteTransactionPrepare", tx[Cur],
                        StartRemoteTransactionPrepare(tx[Cur], connectionNumber,
                                                      workerFound, sendOk),
                        Answer(sendOk, r))
                /\ connectionNumber' =
                       IF Crash(StartRemoteTransactionPrepare(tx[Cur], connectionNumber,
                                                              workerFound, sendOk))
                       THEN connectionNumber
                       ELSE PostIncrement(connectionNumber)
                /\ UNCHANGED <<transactionInProgress, InProgressTransactions,
                               modifiedPlacement>>

PrepareFinish ==
    /\ InLoop("prepare", "finish")
    /\ IF tx[Cur].transactionState # "REMOTE_TRANS_PREPARING"
       THEN Skip
       ELSE \E clearOk \in BOOLEAN :
                /\ Step("FinishRemoteTransactionPrepare", tx[Cur],
                        FinishRemoteTransactionPrepare(tx[Cur], reply[Cur] = "ok", clearOk),
                        Consumed(reply[Cur]))
                /\ UNCHANGED <<transactionInProgress, InProgressTransactions,
                               modifiedPlacement, connectionNumber>>

\* -------------------------------------- CoordinatedRemoteTransactionsCommit

CallCommit == Enter("commit", 0)

CommitStart ==
    /\ InLoop("commit", "start")
    /\ IF tx[Cur].transactionState \in
              {"REMOTE_TRANS_NOT_STARTED", "REMOTE_TRANS_1PC_COMMITTING",
               "REMOTE_TRANS_2PC_COMMITTING", "REMOTE_TRANS_COMMITTED",
               "REMOTE_TRANS_ABORTED"}
       THEN Skip
       ELSE \E sendOk \in BOOLEAN, r \in Replies :
                /\ Step("StartRemoteTransactionCommit", tx[Cur],
                        StartRemoteTransactionCommit(tx[Cur], sendOk),
                        Answer(sendOk, r))
                /\ UNCHANGED <<transactionInProgress, InProgressTransactions,
                               modifiedPlacement, connectionNumber>>

CommitFinish ==
    /\ InLoop("commit", "finish")
    /\ IF tx[Cur].transactionState \notin AbortingStates \cup CommittingStates
       THEN Skip
       ELSE /\ Step("FinishRemoteTransactionCommit", tx[Cur],
                    FinishRemoteTransactionCommit(tx[Cur], reply[Cur] = "ok"),
                    Consumed(reply[Cur]))
            /\ UNCHANGED <<transactionInProgress, InProgressTransactions,
                           modifiedPlacement, connectionNumber>>

\* --------------------------------------- CoordinatedRemoteTransactionsAbort

CallAbort == Enter("abort", 0)

AbortStart ==
    /\ InLoop("abort", "start")
    /\ IF tx[Cur].transactionState \in
              {"REMOTE_TRANS_NOT_STARTED", "REMOTE_TRANS_ABORTED"} \cup AbortingStates
       THEN Skip
       ELSE \E readyOk \in BOOLEAN, sendOk \in BOOLEAN, r \in Replies :
                LET res == StartRemoteTransactionAbort(tx[Cur], readyOk, sendOk)
                IN  /\ Step("StartRemoteTransactionAbort", tx[Cur], res,
                            IF res.cmd = "none" THEN Consumed(reply[Cur]) ELSE Answer(sendOk, r))
                    /\ UNCHANGED <<transactionInProgress, InProgressTransactions,
                                   modifiedPlacement, connectionNumber>>

AbortFinish ==
    /\ InLoop("abort", "finish")
    /\ IF tx[Cur].transactionState \notin AbortingStates
       THEN Skip
       ELSE \E clearOk \in BOOLEAN :
                /\ Step("FinishRemoteTransactionAbort", tx[Cur],
                        FinishRemoteTransactionAbort(tx[Cur], reply[Cur] = "ok", clearOk),
                        Consumed(reply[Cur]))
                /\ UNCHANGED <<transactionInProgress, InProgressTransactions,
                               modifiedPlacement, connectionNumber>>


\* ------------------------------ CoordinatedRemoteTransactionsSavepointBegin

CallSavepointBegin == \E subId \in SubIds : Enter("savepoint_begin", subId)

SavepointBeginStart ==
    /\ InLoop("savepoint_begin", "start")
    /\ IF tx[Cur].transactionFailed
       THEN Skip
       ELSE \E sendOk \in BOOLEAN, r \in Replies :
                /\ Step("StartRemoteTransactionSavepointBegin", tx[Cur],
                        StartRemoteTransactionSavepointBegin(tx[Cur], pc.subId, sendOk),
                        Answer(sendOk, r))
                /\ UNCHANGED <<transactionInProgress, InProgressTransactions,
                               modifiedPlacement, connectionNumber>>

\* a second loop that records the savepoint whatever the result was
SavepointBeginRecordsAlways(t, subId, resultOk) ==
    LET res == FinishRemoteTransactionSavepointBegin(t, subId, resultOk)
    IN  IF ~res.err
        THEN [res EXCEPT !.t.lastSuccessfulSubXact = subId]
        ELSE res

\* the Finish call and the statement after it in the second loop
SavepointBeginFinishBody(t, subId, resultOk) ==
    LET res == FinishRemoteTransactionSavepointBegin(t, subId, resultOk)
    IN  IF ~res.err /\ ~res.t.transactionFailed
        THEN [res EXCEPT !.t.lastSuccessfulSubXact = subId]
        ELSE res

SavepointBeginFinish ==
    /\ InLoop("savepoint_begin", "finish")
    /\ IF tx[Cur].transactionFailed
       THEN Skip
       ELSE /\ Step("FinishRemoteTransactionSavepointBegin", tx[Cur],
                    SavepointBeginFinishBody(tx[Cur], pc.subId, reply[Cur] = "ok"),
                    Consumed(reply[Cur]))
            /\ UNCHANGED <<transactionInProgress, InProgressTransactions,
                           modifiedPlacement, connectionNumber>>

\* ---------------------------- CoordinatedRemoteTransactionsSavepointRelease

CallSavepointRelease == \E subId \in SubIds : Enter("savepoint_release", subId)

SavepointReleaseStart ==
    /\ InLoop("savepoint_release", "start")
    /\ IF tx[Cur].transactionFailed
       THEN Skip
       ELSE \E sendOk \in BOOLEAN, r \in Replies :
                /\ Step("StartRemoteTransactionSavepointRelease", tx[Cur],
                        StartRemoteTransactionSavepointRelease(tx[Cur], pc.subId, sendOk),
                        Answer(sendOk, r))
                /\ UNCHANGED <<transactionInProgress, InProgressTransactions,
                               modifiedPlacement, connectionNumber>>

SavepointReleaseFinish ==
    /\ InLoop("savepoint_release", "finish")
    /\ IF tx[Cur].transactionFailed
       THEN Skip
       ELSE /\ Step("FinishRemoteTransactionSavepointRelease", tx[Cur],
                    FinishRemoteTransactionSavepointRelease(tx[Cur], pc.subId,
                                                            reply[Cur] = "ok"),
                    Consumed(reply[Cur]))
            /\ UNCHANGED <<transactionInProgress, InProgressTransactions,
                           modifiedPlacement, connectionNumber>>

\* --------------------------- CoordinatedRemoteTransactionsSavepointRollback

CallSavepointRollback == \E subId \in SubIds : Enter("savepoint_rollback", subId)

\* a first loop that recovers when lastSuccessfulSubXact >= subId
RollbackRecoversLaterFailures(t, subId, clearOk, sendOk) ==
    LET c == ClearResults(t, FALSE, clearOk)
        recover == c.t.transactionFailed /\ c.t.lastSuccessfulSubXact >= subId
        t1 == IF recover THEN [c.t EXCEPT !.transactionRecovering = TRUE] ELSE c.t
        res == StartRemoteTransactionSavepointRollback(t1, subId, sendOk)
    IN  IF c.err
        THEN [started |-> FALSE, pre |-> t,
              res |-> Call(c.t, "none", <<>>, TRUE, c.handlers, {}, TRUE, TRUE)]
        ELSE IF c.t.transactionFailed /\ ~recover
        THEN [started |-> FALSE, pre |-> t,
              res |-> Call(c.t, "none", <<>>, TRUE, c.handlers, {}, TRUE, FALSE)]
        ELSE [started |-> TRUE, pre |-> t1,
              res |-> [res EXCEPT !.handlers = c.handlers \o res.handlers,
                                  !.notes = IF recover THEN {"ForgetResults"} ELSE {}]]

\* the body of the first loop: cancel, drain without warnings (raiseErrors
\* false), then decide between recovery, skip and plain rollback.  started
\* tells whether StartRemoteTransactionSavepointRollback was called.
SavepointRollbackStartBody(t, subId, clearOk, sendOk) ==
    LET c == ClearResults(t, FALSE, clearOk)
        recover == c.t.transactionFailed /\ c.t.lastSuccessfulSubXact <= subId
        t1 == IF recover THEN [c.t EXCEPT !.transactionRecovering = TRUE] ELSE c.t
        res == StartRemoteTransactionSavepointRollback(t1, subId, sendOk)
    IN  IF c.err
        THEN [started |-> FALSE, pre |-> t,
              res |-> Call(c.t, "none", <<>>, TRUE, c.handlers, {}, TRUE, TRUE)]
        ELSE IF c.t.transactionFailed /\ ~recover
        THEN [started |-> FALSE, pre |-> t,
              res |-> Call(c.t, "none", <<>>, TRUE, c.handlers, {}, TRUE, FALSE)]
        ELSE [started |-> TRUE, pre |-> t1,
              res |-> [res EXCEPT !.handlers = c.handlers \o res.handlers,
                                  !.notes = IF recover THEN {"ForgetResults"} ELSE {}]]

SavepointRollbackStart ==
    /\ InLoop("savepoint_rollback", "start")
    /\ \E clearOk \in BOOLEAN, sendOk \in BOOLEAN, r \in Replies :
           LET b == SavepointRollbackStartBody(tx[Cur], pc.subId, clearOk, sendOk)
           IN  /\ Step(IF b.started
                       THEN "StartRemoteTransactionSavepointRollback"
                       ELSE "SkipSavepointRollback",
                       b.pre, b.res,
                       IF b.started THEN Answer(sendOk, r) ELSE Consumed(reply[Cur]))
               /\ UNCHANGED <<transactionInProgress, InProgressTransactions,
                              modifiedPlacement, connectionNumber>>

\* a second loop that forgets the writes of a transaction it recovered
RollbackFinishClearsTaint ==
    /\ InLoop("savepoint_rollback", "finish")
    /\ IF tx[Cur].transactionFailed /\ ~tx[Cur].transactionRecovering
       THEN Skip
       ELSE LET res == FinishRemoteTransactionSavepointRollback(
                           tx[Cur], pc.subId, reply[Cur] = "ok")
            IN  /\ Step("FinishRemoteTransactionSavepointRollback", tx[Cur],
                        [res EXCEPT !.notes = res.notes \cup {"UnclaimConnection"}],
                        Consumed(reply[Cur]))
                /\ modifiedPlacement' =
                       IF tx[Cur].transactionRecovering /\ ~res.t.transactionFailed
                       THEN [modifiedPlacement EXCEPT ![Cur] = FALSE]
                       ELSE modifiedPlacement
                /\ UNCHANGED <<transactionInProgress, InProgressTransactions,
                               connectionNumber>>

SavepointRollbackFinish ==
    /\ InLoop("savepoint_rollback", "finish")
    /\ IF tx[Cur].transactionFailed /\ ~tx[Cur].transactionRecovering
       THEN Skip
       ELSE LET res == FinishRemoteTransactionSavepointRollback(
                           tx[Cur], pc.subId, reply[Cur] = "ok")
            IN  /\ Step("FinishRemoteTransactionSavepointRollback", tx[Cur],
                        [res EXCEPT !.notes = res.notes \cup {"UnclaimConnection"}],
                        Consumed(reply[Cur]))
                /\ UNCHANGED <<transactionInProgress, InProgressTransactions,
                               modifiedPlacement, connectionNumber>>

\* ------------------------------------------- CheckRemoteTransactionsHealth

CallHealth == Enter("health", 0)

CheckHealth ==
    /\ InLoop("health", "start")
    /\ \E status \in TransactionStatus :
           /\ Step("CheckRemoteTransactionsHealth", tx[Cur],
                   CheckRemoteTransactionHealth(tx[Cur], status), reply[Cur])
           /\ UNCHANGED <<transactionInProgress, InProgressTransactions,
                          modifiedPlacement, connectionNumber>>

\* ------------------------------------------------- calls on one connection

\* a statement of the local transaction wrote through the connection
\* (ConnectionModifiedPlacement becomes true)
ModifyPlacement(c) ==
    /\ pc.phase = "idle"
    /\ caller \in {"any", "running"}
    /\ tx[c].transactionState \in StartedStates
    /\ ~modifiedPlacement[c]
    /\ modifiedPlacement' = [modifiedPlacement EXCEPT ![c] = TRUE]
    /\ last' = NoCall
    /\ UNCHANGED <<tx, transactionInProgress, InProgressTransactions, reply,
                   connectionNumber, pc, session, assertChecking, naming, caller>>

MarkRemoteTransactionCritical(c) ==
    /\ pc.phase = "idle"
    /\ caller \in {"any", "running"}
    /\ ~tx[c].transactionCritical
    /\ tx' = [tx EXCEPT ![c].transactionCritical = TRUE]
    /\ last' = NoCall
    /\ UNCHANGED <<transactionInProgress, InProgressTransactions, modifiedPlacement,
                   reply, connectionNumber, pc, session, assertChecking, naming, caller>>

\* a reset that zeroes the transaction and leaves the connection registered
ResetKeepsRegistered(c) ==
    /\ pc.phase = "idle"
    /\ caller \in {"any", "ended"}
    /\ UNCHANGED <<InProgressTransactions, transactionInProgress>>
    /\ tx' = [tx EXCEPT ![c] = ZeroTransaction]
    /\ modifiedPlacement' = [modifiedPlacement EXCEPT ![c] = FALSE]
    /\ reply' = [reply EXCEPT ![c] = "none"]
    /\ last' = [NoCall EXCEPT !.op = "ResetRemoteTransaction", !.conn = c,
                            !.arg = InProgressTransactions]
    /\ UNCHANGED <<connectionNumber, pc, session, assertChecking, naming, caller>>

\* a reset that leaves the transaction marked critical
ResetKeepsCritical(c) ==
    /\ pc.phase = "idle"
    /\ caller \in {"any", "ended"}
    /\ IF transactionInProgress[c]
       THEN /\ InProgressTransactions' = DListDelete(InProgressTransactions, c)
            /\ transactionInProgress' = [transactionInProgress EXCEPT ![c] = FALSE]
       ELSE UNCHANGED <<InProgressTransactions, transactionInProgress>>
    /\ tx' = [tx EXCEPT ![c] = [ZeroTransaction EXCEPT
                                    !.transactionCritical = tx[c].transactionCritical]]
    /\ modifiedPlacement' = [modifiedPlacement EXCEPT ![c] = FALSE]
    /\ reply' = [reply EXCEPT ![c] = "none"]
    /\ last' = [NoCall EXCEPT !.op = "ResetRemoteTransaction", !.conn = c,
                            !.arg = InProgressTransactions]
    /\ UNCHANGED <<connectionNumber, pc, session, assertChecking, naming, caller>>

ResetRemoteTransaction(c) ==
    /\ pc.phase = "idle"
    /\ caller \in {"any", "ended"}
    /\ IF transactionInProgress[c]
       THEN /\ InProgressTransactions' = DListDelete(InProgressTransactions, c)
            /\ transactionInProgress' = [transactionInProgress EXCEPT ![c] = FALSE]
       ELSE UNCHANGED <<InProgressTransactions, transactionInProgress>>
    /\ tx' = [tx EXCEPT ![c] = ZeroTransaction]
    \* ResetShardPlacementAssociation forgets the placements it wrote to
    /\ modifiedPlacement' = [modifiedPlacement EXCEPT ![c] = FALSE]
    /\ reply' = [reply EXCEPT ![c] = "none"]
    /\ last' = [NoCall EXCEPT !.op = "ResetRemoteTransaction", !.conn = c,
                            !.arg = InProgressTransactions]
    /\ UNCHANGED <<connectionNumber, pc, session, assertChecking, naming, caller>>

\* ----------------------------------------------------------- specification

Next ==
    \/ CallBeginIfNecessary \/ BeginIfNecessaryStart \/ BeginIfNecessaryFinish
    \/ CallPrepare \/ PrepareStart \/ PrepareFinish
    \/ CallCommit \/ CommitStart \/ CommitFinish
    \/ CallAbort \/ AbortStart \/ AbortFinish
    \/ CallSavepointBegin \/ SavepointBeginStart \/ SavepointBeginFinish
    \/ CallSavepointRelease \/ SavepointReleaseStart \/ SavepointReleaseFinish
    \/ CallSavepointRollback \/ SavepointRollbackStart \/ SavepointRollbackFinish
    \/ CallHealth \/ CheckHealth
    \/ WaitForAllConnections \/ Return \/ Resume
    \/ \E c \in session : ModifyPlacement(c)
    \/ \E c \in session : MarkRemoteTransactionCritical(c)
    \/ \E c \in session : ResetRemoteTransaction(c)

\* any caller, on a session of one connection
Spec == Init /\ [][Next]_vars

\* a caller that keeps the commit protocol, on a session of all connections
ProtocolInit ==
    /\ tx = [c \in Conns |-> ZeroTransaction]
    /\ transactionInProgress = [c \in Conns |-> FALSE]
    /\ InProgressTransactions = <<>>
    /\ modifiedPlacement = [c \in Conns |-> FALSE]
    /\ reply = [c \in Conns |-> "none"]
    /\ connectionNumber = 0
    /\ pc = Idle
    /\ session = Conns
    /\ assertChecking \in BOOLEAN
    /\ caller = "running"
    /\ last = NoCall
    /\ process = CoordinatorProcess
    /\ errno = "0"
    /\ build = LP64Build
    /\ parsed = NoParse
    /\ names = <<>>

ProtocolNext ==
    \/ CallBeginIfNecessary \/ BeginIfNecessaryStart \/ BeginIfNecessaryFinish
    \/ CallPrepare \/ PrepareStart \/ PrepareFinish
    \/ CallCommit \/ CommitStart \/ CommitFinish
    \/ CallAbort \/ AbortStart \/ AbortFinish
    \/ CallHealth \/ CheckHealth
    \/ WaitForAllConnections \/ Return \/ Resume
    \/ \E c \in session : ModifyPlacement(c)
    \/ \E c \in session : MarkRemoteTransactionCritical(c)
    \/ \E c \in session : ResetRemoteTransaction(c)

ProtocolSpec == ProtocolInit /\ [][ProtocolNext]_vars

\* ------------------------------------------------- InProgressTransactions

RegistryConns == {"A", "B", "C"}

\* any caller, on a session of three connections, registering them, visiting
\* them and resetting them
RegistryInit ==
    /\ tx = [c \in RegistryConns |-> ZeroTransaction]
    /\ transactionInProgress = [c \in RegistryConns |-> FALSE]
    /\ InProgressTransactions = <<>>
    /\ modifiedPlacement = [c \in RegistryConns |-> FALSE]
    /\ reply = [c \in RegistryConns |-> "none"]
    /\ connectionNumber = 0
    /\ pc = Idle
    /\ session = RegistryConns
    /\ assertChecking \in BOOLEAN
    /\ caller = "any"
    /\ last = NoCall
    /\ process = CoordinatorProcess
    /\ errno = "0"
    /\ build = LP64Build
    /\ parsed = NoParse
    /\ names = <<>>

RegistryNext ==
    \/ CallBeginIfNecessary \/ BeginIfNecessaryStart \/ BeginIfNecessaryFinish
    \/ CallPrepare \/ PrepareStart \/ PrepareFinish
    \/ CallHealth \/ CheckHealth
    \/ WaitForAllConnections \/ Return \/ Resume
    \/ \E c \in session : ResetRemoteTransaction(c)

RegistrySpec == RegistryInit /\ [][RegistryNext]_vars

\* ---------------------------------------------------------------- savepoints

\* any caller, on a session of all connections, opening transactions and
\* savepoints and rolling back to savepoints; none of these functions has an
\* Assert that can fail, so one build stands for both
SavepointInit ==
    /\ tx = [c \in Conns |-> ZeroTransaction]
    /\ transactionInProgress = [c \in Conns |-> FALSE]
    /\ InProgressTransactions = <<>>
    /\ modifiedPlacement = [c \in Conns |-> FALSE]
    /\ reply = [c \in Conns |-> "none"]
    /\ connectionNumber = 0
    /\ pc = Idle
    /\ session = Conns
    /\ assertChecking = FALSE
    /\ caller = "any"
    /\ last = NoCall
    /\ process = CoordinatorProcess
    /\ errno = "0"
    /\ build = LP64Build
    /\ parsed = NoParse
    /\ names = <<>>

SavepointNext ==
    \/ CallBeginIfNecessary \/ BeginIfNecessaryStart \/ BeginIfNecessaryFinish
    \/ CallSavepointBegin \/ SavepointBeginStart \/ SavepointBeginFinish
    \/ CallSavepointRollback \/ SavepointRollbackStart \/ SavepointRollbackFinish
    \/ WaitForAllConnections \/ Return \/ Resume

SavepointSpec == SavepointInit /\ [][SavepointNext]_vars

\* --------------------------------------------- ParsePreparedTransactionName

\* prefix_f1_f2..., a separator before every field
RECURSIVE JoinFields(_, _)
JoinFields(prefix, fields) ==
    IF fields = <<>>
    THEN prefix
    ELSE JoinFields(prefix \o <<"_">> \o Head(fields), Tail(fields))

Citus == <<"c", "i", "t", "u", "s">>

\* the fields the names to parse are made of: a value of the target type,
\* the value after its greatest, a value no long can hold, and fields that
\* are empty or hold a letter
GroupFields ==
    {ToDecimal(0), ToDecimal(INT_MAX + 1), ToDecimal(2^(2 * IntBits - 1)), <<"a">>}

ProcFields == {ToDecimal(1), <<>>}

TransactionFields == {ToDecimal(0), ToDecimal(ULLONG_MAX + 1), <<"a">>}

NumberFields == {ToDecimal(0), ToDecimal(UINT_MAX + 1), <<>>, <<"1", "a">>}

FieldLists == GroupFields \X ProcFields \X TransactionFields \X NumberFields

\* names of five parts, the same names cut after fewer fields, and "bad_1_2"
PreparedTransactionNames ==
    {JoinFields(Citus, SubSeq(f, 1, k)) : f \in FieldLists, k \in 0..4}
        \cup {<<"b", "a", "d", "_", "1", "_", "2">>}

\* the values whose names are formatted and parsed back
GroupIds == {0, INT_MAX}
ProcIds == {0, INT_MAX}
TransactionNumbers == {0, ULLONG_MAX}
ConnectionNumbers == {0, UINT_MAX}

\* one call of ParsePreparedTransactionName in this process; from are the
\* values the name was formatted from, if it was
Parse(name, from) ==
    LET r == ParsePreparedTransactionName(name, errno, build)
    IN  /\ errno' = r.errno
        /\ parsed' = [name |-> name, from |-> from, errnoBefore |-> errno,
                      result |-> r.result, out |-> r.out, reach |-> r.reach,
                      called |-> TRUE]
        /\ UNCHANGED <<tx, transactionInProgress, InProgressTransactions,
                       modifiedPlacement, reply, connectionNumber, pc, session,
                       assertChecking, caller, last, process, build, names>>

\* the recovery sweep parses the name of some prepared transaction
ParseName == \E name \in PreparedTransactionNames : Parse(name, <<>>)

\* a name written with PREPARED_TRANSACTION_NAME_FORMAT is parsed back
ParseFormatted ==
    \E g \in GroupIds, p \in ProcIds, t \in TransactionNumbers,
       c \in ConnectionNumbers :
        Parse(PREPARED_TRANSACTION_NAME_FORMAT(g, p, t, c), <<g, p, t, c>>)

ParserInit ==
    /\ tx = [c \in Conns |-> ZeroTransaction]
    /\ transactionInProgress = [c \in Conns |-> FALSE]
    /\ InProgressTransactions = <<>>
    /\ modifiedPlacement = [c \in Conns |-> FALSE]
    /\ reply = [c \in Conns |-> "none"]
    /\ connectionNumber = 0
    /\ pc = Idle
    /\ session = FreeSession
    /\ assertChecking = FALSE
    /\ caller = "any"
    /\ last = NoCall
    /\ process = CoordinatorProcess
    /\ errno = "0"
    /\ build \in Builds
    /\ parsed = NoParse
    /\ names = <<>>

ParserNext == ParseName \/ ParseFormatted

\* a process that parses one name after the other, in any build
ParserSpec == ParserInit /\ [][ParserNext]_vars

\* ------------------------------------------------------ Assign2PCIdentifier

\* calls enough for the counter to come round
MaxNames == 2^IntBits + 1

Processes ==
    [groupId : {0, 1}, pid : {1, INT_MAX}, transactionNumber : {1, ULLONG_MAX}]

\* one StartRemoteTransactionPrepare on a transaction that is STARTED; the
\* name it assigns is kept in names
PrepareCall ==
    /\ Len(names) < MaxNames
    /\ \E workerFound \in WorkerNodeFound, sendOk \in BOOLEAN :
           LET t == [ZeroTransaction EXCEPT !.transactionState = "REMOTE_TRANS_STARTED"]
               res == StartRemoteTransactionPrepare(t, connectionNumber,
                                                    workerFound, sendOk)
           IN  /\ names' = Append(names, res.t.preparedName)
               /\ connectionNumber' = PostIncrement(connectionNumber)
               /\ last' = [NoCall EXCEPT !.op = "StartRemoteTransactionPrepare",
                                         !.pre = t, !.cmd = res.cmd,
                                         !.arg = res.arg, !.sendOk = res.sendOk,
                                         !.handlers = res.handlers,
                                         !.notes = res.notes]
    /\ UNCHANGED <<tx, transactionInProgress, InProgressTransactions,
                   modifiedPlacement, reply, pc, session, assertChecking, caller,
                   process, errno, build, parsed>>

IdentifierInit ==
    /\ tx = [c \in Conns |-> ZeroTransaction]
    /\ transactionInProgress = [c \in Conns |-> FALSE]
    /\ InProgressTransactions = <<>>
    /\ modifiedPlacement = [c \in Conns |-> FALSE]
    /\ reply = [c \in Conns |-> "none"]
    /\ connectionNumber = 0
    /\ pc = Idle
    /\ session = FreeSession
    /\ assertChecking \in BOOLEAN
    /\ caller = "any"
    /\ last = NoCall
    /\ process \in Processes
    /\ errno = "0"
    /\ build = LP64Build
    /\ parsed = NoParse
    /\ names = <<>>

IdentifierNext == PrepareCall

\* a process that prepares one transaction after the other
IdentifierSpec == IdentifierInit /\ [][IdentifierNext]_vars

TypeOK ==
    /\ \A c \in Conns : tx[c].transactionState \in RemoteTransactionState
    /\ connectionNumber \in 0..UINT_MAX
    /\ errno \in ErrnoValues
    /\ build \in Builds

\* ------------------------------------------------------------ observations

\* the last step made the call op, and the call ran (no Assert stopped it)
CallRan(op) == last.op = op /\ (last.assertOk \/ ~assertChecking)

\* the transaction of the last call, as the call left it
After == tx[last.conn]

\* a precedes b in InProgressTransactions
Precedes(a, b) ==
    \E i, j \in 1..Len(InProgressTransactions) :
        /\ i < j
        /\ InProgressTransactions[i] = a
        /\ InProgressTransactions[j] = b

\* the commands that finalise a remote transaction in two phases
TwoPhaseCommands == {"PREPARE TRANSACTION", "COMMIT PREPARED", "ROLLBACK PREPARED"}

\* ------------------------------------------------------------------ claims

\* C1: whenever one of HandleRemoteTransactionConnectionError,
\* HandleRemoteTransactionResultError and MarkRemoteTransactionFailed ran in a
\* call, the transaction is failed afterwards, and the handler left by
\* ereport(ERROR), unwinding the coordinated function, exactly when the
\* transaction is critical and the handler was passed raiseErrors = true.
C1_FailureClassifier ==
    \A k \in 1..Len(last.handlers) :
        /\ After.transactionFailed
        /\ last.handlers[k].raised <=>
               (last.pre.transactionCritical /\ last.handlers[k].raiseErrors)
        /\ last.handlers[k].raised => (pc.phase = "returned" /\ pc.raised)

C1_Witness ==
    /\ Len(last.handlers) > 0
    /\ last.handlers[1].raised
    /\ last.pre.transactionCritical
    /\ After.transactionFailed

\* C2: for any sequence of operations, a transaction whose prepare was started
\* (it was assigned a prepared name) and whose state is not PREPARED is not
\* sent COMMIT or COMMIT PREPARED, and it reaches COMMITTED only from
\* 2PC_COMMITTING.
C2_NeverCommitsUnprepared ==
    /\ ( /\ CallRan("StartRemoteTransactionCommit")
         /\ last.pre.preparedName # <<>>
         /\ last.pre.transactionState # "REMOTE_TRANS_PREPARED" )
       => ~(last.sendOk /\ last.cmd \in {"COMMIT", "COMMIT PREPARED"})
    /\ ( /\ CallRan("FinishRemoteTransactionCommit")
         /\ last.pre.preparedName # <<>>
         /\ After.transactionState = "REMOTE_TRANS_COMMITTED" )
       => last.pre.transactionState = "REMOTE_TRANS_2PC_COMMITTING"

\* a connection that wrote and is not in PREPARED or in a commit state that
\* follows PREPARED
NotPreparedWrite(d) ==
    /\ modifiedPlacement[d]
    /\ tx[d].transactionState \notin
           {"REMOTE_TRANS_PREPARED", "REMOTE_TRANS_2PC_COMMITTING",
            "REMOTE_TRANS_COMMITTED"}

\* a connection that wrote and never reached PREPARED: still before PREPARED,
\* or ABORTED by the bad answer to its PREPARE TRANSACTION
NeverPreparedWrite(d) ==
    /\ modifiedPlacement[d]
    /\ \/ tx[d].transactionState \in StartedStates \cup {"REMOTE_TRANS_PREPARING"}
       \/ tx[d].transactionState = "REMOTE_TRANS_ABORTED" /\ reply[d] = "was_bad"

\* the last call sent COMMIT PREPARED to c
SentCommitPrepared(c) ==
    /\ CallRan("StartRemoteTransactionCommit")
    /\ last.conn = c
    /\ last.cmd = "COMMIT PREPARED"
    /\ last.sendOk

PrepareEnded == pc.phase = "returned" /\ pc.ended = "prepare"

\* the drain of results at the end of the last call failed
DrainFailed == \E k \in 1..Len(last.handlers) : last.handlers[k].kind = "mark"

\* a and b wrote, both were sent PREPARE TRANSACTION in the phase that has
\* just ended, the answer to a was OK and the answer to b was not, and no
\* drain of results failed
PreparedOneOfTwo(a, b) ==
    /\ PrepareEnded
    /\ a # b
    /\ modifiedPlacement[a] /\ modifiedPlacement[b]
    /\ reply[a] \in {"ok", "was_ok"}
    /\ reply[b] \in {"bad", "was_bad"}
    /\ ~DrainFailed

\* no COMMIT and no COMMIT PREPARED is sent inside the prepare phase
PrepareSendsNoCommit ==
    (pc.phase = "prepare" \/ PrepareEnded)
        => last.cmd \notin {"COMMIT", "COMMIT PREPARED"}

C5_ReadOnlyExclusion ==
    (last.op # "none" /\ ~modifiedPlacement[last.conn]) =>
        /\ last.cmd \notin TwoPhaseCommands
        /\ last.op \in {"StartRemoteTransactionCommit", "StartRemoteTransactionAbort"}
               => last.cmd \in {"COMMIT", "ROLLBACK", "none"}

C5_Witness ==
    /\ caller = "committing"
    /\ CallRan("StartRemoteTransactionCommit")
    /\ ~modifiedPlacement[last.conn]
    /\ last.cmd = "COMMIT"
    /\ \E d \in Conns :
           tx[d].transactionState \in
               {"REMOTE_TRANS_PREPARED", "REMOTE_TRANS_2PC_COMMITTING"}

\* C6: StartRemoteTransactionCommit sends ROLLBACK and moves to 1PC_ABORTING
\* when the transaction is failed, running no handler even if the send fails;
\* otherwise, in PREPARED, it sends COMMIT PREPARED with the prepared name and
\* moves to 2PC_COMMITTING; otherwise it sends COMMIT and moves to
\* 1PC_COMMITTING.
C6_CommitCommand ==
    CallRan("StartRemoteTransactionCommit") =>
        IF last.pre.transactionFailed
        THEN /\ last.cmd = "ROLLBACK"
             /\ After.transactionState = "REMOTE_TRANS_1PC_ABORTING"
             /\ last.handlers = <<>>
             /\ ~last.err
        ELSE IF last.pre.transactionState = "REMOTE_TRANS_PREPARED"
        THEN /\ last.cmd = "COMMIT PREPARED"
             /\ last.arg = last.pre.preparedName
             /\ After.transactionState = "REMOTE_TRANS_2PC_COMMITTING"
        ELSE /\ last.cmd = "COMMIT"
             /\ After.transactionState = "REMOTE_TRANS_1PC_COMMITTING"

C6_Witness ==
    /\ CallRan("StartRemoteTransactionCommit")
    /\ last.pre.transactionFailed
    /\ last.pre.transactionState = "REMOTE_TRANS_PREPARED"
    /\ last.cmd = "ROLLBACK"
    /\ ~last.sendOk

\* FinishRemoteTransactionPrepare ran on a transaction in PREPARING
PrepareFinished ==
    /\ CallRan("FinishRemoteTransactionPrepare")
    /\ last.pre.transactionState = "REMOTE_TRANS_PREPARING"

\* C7 (as stated): FinishRemoteTransactionPrepare on a transaction in
\* PREPARING sets PREPARED on an OK result; on another result it sets ABORTED,
\* marks the transaction failed and raises an ERROR.
C7_BadPrepareRaises ==
    PrepareFinished =>
        IF reply[last.conn] = "was_ok"
        THEN After.transactionState = "REMOTE_TRANS_PREPARED"
        ELSE /\ After.transactionState = "REMOTE_TRANS_ABORTED"
             /\ After.transactionFailed
             /\ last.err

\* C7 (amended): on an OK result it sets PREPARED; on another result it sets
\* ABORTED and marks the transaction failed, and it raises an ERROR only if
\* the transaction is critical or the drain of the remaining results fails;
\* for a transaction that is not critical it reports a WARNING and returns.
C7_BadPrepareRaisesIfCritical ==
    PrepareFinished =>
        IF reply[last.conn] = "was_ok"
        THEN /\ After.transactionState = "REMOTE_TRANS_PREPARED"
             /\ last.err <=> DrainFailed
        ELSE /\ After.transactionState = "REMOTE_TRANS_ABORTED"
             /\ After.transactionFailed
             /\ last.err <=> (last.pre.transactionCritical \/ DrainFailed)

C7_Witness ==
    /\ PrepareFinished
    /\ reply[last.conn] = "was_bad"
    /\ ~last.pre.transactionCritical
    /\ ~last.err
    /\ After.transactionState = "REMOTE_TRANS_ABORTED"

\* C8: StartRemoteTransactionCommit and FinishRemoteTransactionCommit never
\* leave by ERROR, for critical transactions too: a handler they run only
\* marks the transaction failed; the commit phase therefore returns without
\* ERROR, and when it returns every connection of the list has been taken
\* beyond the states the phase acts on.
C8_CommitNeverRaises ==
    /\ last.op \in {"StartRemoteTransactionCommit", "FinishRemoteTransactionCommit"}
           => /\ ~last.err
              /\ \A k \in 1..Len(last.handlers) :
                     ~last.handlers[k].raised /\ After.transactionFailed
    /\ (pc.phase = "returned" /\ pc.ended = "commit") =>
           /\ ~pc.raised
           /\ \A k \in 1..Len(InProgressTransactions) :
                  ~BeforeAborting(tx[InProgressTransactions[k]].transactionState)

C8_Witness ==
    /\ pc.phase = "returned" /\ pc.ended = "commit"
    /\ \E c, d \in Conns :
           /\ Precedes(c, d)
           /\ tx[c].transactionCritical
           /\ tx[c].transactionFailed
           /\ tx[c].transactionState \in CommittingStates
           /\ tx[d].transactionState = "REMOTE_TRANS_COMMITTED"

\* C9: StartRemoteTransactionAbort sends ROLLBACK PREPARED exactly when the
\* transaction is in PREPARING or PREPARED, with the prepared name, and moves
\* to 2PC_ABORTING when the send succeeds (the state stays when it fails).
C9_RollbackPrepared ==
    CallRan("StartRemoteTransactionAbort") =>
        /\ last.cmd = "ROLLBACK PREPARED" <=> last.pre.transactionState \in PrepareStates
        /\ last.cmd = "ROLLBACK PREPARED" =>
               /\ last.arg = last.pre.preparedName
               /\ last.arg # <<>>
               /\ After.transactionState =
                      IF last.sendOk THEN "REMOTE_TRANS_2PC_ABORTING"
                      ELSE last.pre.transactionState

C9_Witness ==
    /\ CallRan("StartRemoteTransactionAbort")
    /\ last.pre.transactionState = "REMOTE_TRANS_PREPARING"
    /\ last.cmd = "ROLLBACK PREPARED"
    /\ last.sendOk
    /\ After.transactionState = "REMOTE_TRANS_2PC_ABORTING"

\* the stage of a state in the transition table
\* NOT_STARTED -> STARTING -> STARTED -> {PREPARING -> PREPARED} ->
\* {1PC_COMMITTING | 2PC_COMMITTING | 1PC_ABORTING | 2PC_ABORTING} ->
\* {COMMITTED | ABORTED}
Stage(s) ==
    CASE s = "REMOTE_TRANS_NOT_STARTED" -> 0
      [] s = "REMOTE_TRANS_STARTING" -> 1
      [] s = "REMOTE_TRANS_STARTED" -> 2
      [] s = "REMOTE_TRANS_PREPARING" -> 3
      [] s = "REMOTE_TRANS_PREPARED" -> 4
      [] s \in AbortingStates \cup CommittingStates -> 5
      [] s \in TerminalStates -> 6

\* C10: every change of a transaction's state made by a call whose Asserts
\* hold moves it to a later stage of the transition table (or between states
\* of one stage), except the reset to STARTED by
\* FinishRemoteTransactionSavepointRollback and the zeroing by
\* ResetRemoteTransaction; COMMITTED and ABORTED are left by these two only.
C10_TableEdgesOnly ==
    [][\A c \in Conns :
           (tx'[c].transactionState # tx[c].transactionState /\ last'.assertOk) =>
               \/ /\ Stage(tx[c].transactionState) <= Stage(tx'[c].transactionState)
                  /\ tx[c].transactionState \notin TerminalStates
               \/ /\ last'.op = "FinishRemoteTransactionSavepointRollback"
                  /\ tx'[c].transactionState = "REMOTE_TRANS_STARTED"
               \/ tx'[c] = ZeroTransaction]_vars

\* the first loop of CoordinatedRemoteTransactionsSavepointRollback has just
\* handled a connection
RollbackStartStep ==
    /\ last.op \in {"StartRemoteTransactionSavepointRollback", "SkipSavepointRollback"}
    /\ pc.phase = "savepoint_rollback"

\* C11: in CoordinatedRemoteTransactionsSavepointRollback(subId) a failed
\* transaction is marked recovering and sent ROLLBACK TO SAVEPOINT when
\* lastSuccessfulSubXact <= subId; otherwise it is skipped entirely: no
\* command is sent, state and transactionFailed stay, and the second loop
\* runs no Finish call on it; a transaction that is not failed is always sent
\* the command.
C11_RollbackSkipsOldFailures ==
    /\ (RollbackStartStep /\ last.op = "StartRemoteTransactionSavepointRollback") =>
           /\ last.cmd = "ROLLBACK TO SAVEPOINT"
           /\ last.arg = <<pc.subId>>
           /\ last.pre.transactionFailed =>
                  /\ last.pre.transactionRecovering
                  /\ last.pre.lastSuccessfulSubXact <= pc.subId
    /\ (RollbackStartStep /\ last.op = "SkipSavepointRollback") =>
           /\ last.cmd = "none"
           /\ After.transactionFailed
           /\ After.lastSuccessfulSubXact > pc.subId
           /\ After.transactionState = last.pre.transactionState
    /\ ( /\ CallRan("FinishRemoteTransactionSavepointRollback")
         /\ pc.phase = "savepoint_rollback" )
       => ~(last.pre.transactionFailed /\ last.pre.lastSuccessfulSubXact > pc.subId)

\* transactionFailed as the first loop of the rollback tested it (line 1368),
\* after the drain
FailedAtRollbackTest ==
    IF last.op = "SkipSavepointRollback"
    THEN After.transactionFailed
    ELSE last.pre.transactionFailed

\* FinishRemoteTransactionSavepointRollback has just run and read an OK result
\* (a result that is not OK always goes through the result error handler)
RollbackFinishedOk ==
    /\ CallRan("FinishRemoteTransactionSavepointRollback")
    /\ pc.phase = "savepoint_rollback"
    /\ last.handlers = <<>>

\* C12 as stated: a failed transaction with lastSuccessfulSubXact = 3 is
\* recovered by ROLLBACK TO SAVEPOINT 2 (sent, and on an OK result
\* transactionFailed is false and the state STARTED), and one with
\* lastSuccessfulSubXact = 1 is skipped by ROLLBACK TO SAVEPOINT 2 with state
\* and transactionFailed unchanged.
C12_RecoversLaterFailure ==
    /\ (RollbackStartStep /\ pc.subId = 2 /\ FailedAtRollbackTest
          /\ After.lastSuccessfulSubXact = 3) =>
           /\ last.op = "StartRemoteTransactionSavepointRollback"
           /\ last.cmd = "ROLLBACK TO SAVEPOINT"
    /\ (RollbackFinishedOk /\ pc.subId = 2 /\ last.pre.transactionFailed
          /\ last.pre.lastSuccessfulSubXact = 3) =>
           /\ ~After.transactionFailed
           /\ After.transactionState = "REMOTE_TRANS_STARTED"
    /\ (RollbackStartStep /\ pc.subId = 2 /\ FailedAtRollbackTest
          /\ After.lastSuccessfulSubXact = 1) =>
           /\ last.op = "SkipSavepointRollback"
           /\ After.transactionState = last.pre.transactionState

\* C12: a failed transaction with lastSuccessfulSubXact = 1 is sent ROLLBACK
\* TO SAVEPOINT 2 and on an OK result ends with transactionFailed false and
\* state STARTED; a failed transaction with lastSuccessfulSubXact = 3 is sent
\* nothing by ROLLBACK TO SAVEPOINT 2, keeps its state in the first loop and
\* stays failed.
C12_RecoversEarlierFailure ==
    /\ (RollbackStartStep /\ pc.subId = 2 /\ FailedAtRollbackTest
          /\ After.lastSuccessfulSubXact = 1) =>
           /\ last.op = "StartRemoteTransactionSavepointRollback"
           /\ last.cmd = "ROLLBACK TO SAVEPOINT"
           /\ last.arg = <<2>>
           /\ last.pre.transactionRecovering
    /\ (RollbackFinishedOk /\ pc.subId = 2 /\ last.pre.transactionFailed
          /\ last.pre.lastSuccessfulSubXact = 1) =>
           /\ ~After.transactionFailed
           /\ ~After.transactionRecovering
           /\ After.transactionState = "REMOTE_TRANS_STARTED"
    /\ (RollbackStartStep /\ pc.subId = 2 /\ FailedAtRollbackTest
          /\ After.lastSuccessfulSubXact = 3) =>
           /\ last.op = "SkipSavepointRollback"
           /\ last.cmd = "none"
           /\ After.transactionFailed
           /\ After.transactionState = last.pre.transactionState
    /\ ( /\ CallRan("FinishRemoteTransactionSavepointRollback")
         /\ pc.phase = "savepoint_rollback" /\ pc.subId = 2
         /\ last.pre.transactionFailed
         /\ last.pre.lastSuccessfulSubXact = 3 ) =>
           After.transactionFailed

C12_Witness ==
    /\ RollbackFinishedOk /\ pc.subId = 2
    /\ last.pre.transactionFailed
    /\ last.pre.lastSuccessfulSubXact = 1
    /\ ~After.transactionFailed
    /\ After.transactionState = "REMOTE_TRANS_STARTED"

\* a failed transaction with lastSuccessfulSubXact = 3 has been skipped by
\* ROLLBACK TO SAVEPOINT 2
C12_SkipReached ==
    /\ RollbackStartStep /\ pc.subId = 2 /\ last.op = "SkipSavepointRollback"
    /\ After.lastSuccessfulSubXact = 3

\* FinishRemoteTransactionSavepointRollback has just run
RollbackFinished ==
    /\ CallRan("FinishRemoteTransactionSavepointRollback")
    /\ pc.phase = "savepoint_rollback"

\* C13 as stated: FinishRemoteTransactionSavepointRollback clears
\* transactionFailed and transactionRecovering and sets the state to STARTED
\* exactly when the result is OK and the transaction is recovering; after a
\* result that is not OK the transaction is failed and its state is not reset.
C13_ResetOnlyOnRecovery ==
    RollbackFinished =>
        /\ (RollbackFinishedOk /\ last.pre.transactionRecovering) =>
               /\ ~After.transactionFailed
               /\ ~After.transactionRecovering
               /\ After.transactionState = "REMOTE_TRANS_STARTED"
        /\ ~(RollbackFinishedOk /\ last.pre.transactionRecovering) =>
               /\ After.transactionFailed = last.pre.transactionFailed
                      \/ (~RollbackFinishedOk /\ After.transactionFailed)
               /\ After.transactionRecovering = last.pre.transactionRecovering
               /\ After.transactionState = last.pre.transactionState
        /\ ~RollbackFinishedOk => After.transactionFailed

\* C13: FinishRemoteTransactionSavepointRollback clears transactionFailed and
\* transactionRecovering exactly when the result is OK and the transaction is
\* recovering; after a result that is not OK the transaction is failed and
\* transactionRecovering is as before; in every case the state is STARTED
\* afterwards and no error is raised.
C13_FlagsOnlyOnRecovery ==
    RollbackFinished =>
        /\ (RollbackFinishedOk /\ last.pre.transactionRecovering) =>
               /\ ~After.transactionFailed
               /\ ~After.transactionRecovering
        /\ (RollbackFinishedOk /\ ~last.pre.transactionRecovering) =>
               /\ After.transactionFailed = last.pre.transactionFailed
               /\ ~After.transactionRecovering
        /\ ~RollbackFinishedOk =>
               /\ After.transactionFailed
               /\ After.transactionRecovering = last.pre.transactionRecovering
        /\ After.transactionState = "REMOTE_TRANS_STARTED"
        /\ ~last.err

\* a result that is not OK has reset a state other than STARTED
C13_Witness ==
    /\ RollbackFinished /\ ~RollbackFinishedOk
    /\ last.pre.transactionState # "REMOTE_TRANS_STARTED"
    /\ After.transactionState = "REMOTE_TRANS_STARTED"
    /\ After.transactionFailed

\* a recovery has succeeded
C13_Recovered ==
    /\ RollbackFinishedOk /\ last.pre.transactionRecovering
    /\ last.pre.transactionFailed /\ ~After.transactionFailed

\* C14: while a transaction is registered (from StartRemoteTransactionBegin to
\* ResetRemoteTransaction) transactionFailed goes from true to false only in
\* FinishRemoteTransactionSavepointRollback reading an OK result for a
\* recovering transaction; no step of begin, savepoint begin, release,
\* prepare, health check, commit or abort clears it.
C14_FailedClearedOnlyByRecovery ==
    [][ \A c \in Conns :
          ( /\ transactionInProgress[c] /\ transactionInProgress'[c]
            /\ tx[c].transactionFailed /\ ~tx'[c].transactionFailed )
          => /\ last'.op = "FinishRemoteTransactionSavepointRollback"
             /\ last'.conn = c
             /\ last'.handlers = <<>>
             /\ tx[c].transactionRecovering
             /\ pc.phase = "savepoint_rollback" ]_vars

\* a registered transaction that was failed has been recovered
C14_Witness ==
    /\ last.op = "FinishRemoteTransactionSavepointRollback"
    /\ transactionInProgress[last.conn]
    /\ last.pre.transactionFailed /\ last.pre.transactionRecovering
    /\ ~After.transactionFailed
    /\ After.transactionState = "REMOTE_TRANS_STARTED"
    /\ last.pre.transactionState # "REMOTE_TRANS_STARTED"

\* the connections CheckRemoteTransactionsHealth has already looked at
HealthChecked == {pc.list[k] : k \in 1..(pc.i - 1)}

\* C15: CheckRemoteTransactionsHealth marks failed every transaction whose
\* connection status is PQTRANS_INERROR or PQTRANS_UNKNOWN and raises an error
\* exactly at a transaction that is then failed and critical; a transaction it
\* has marked stays failed for the rest of the call, so when the call returns
\* normally no registered transaction is both failed and critical.
C15_HealthCheck ==
    /\ [](CallRan("CheckRemoteTransactionsHealth") =>
            /\ last.arg[1] \in {"PQTRANS_INERROR", "PQTRANS_UNKNOWN"}
                   => After.transactionFailed
            /\ last.pre.transactionFailed => After.transactionFailed
            /\ last.err <=> (After.transactionFailed /\ After.transactionCritical)
            /\ last.err <=> (pc = Returned("health", TRUE)))
    /\ []((pc.phase = "health" /\ pc.stage = "start") =>
            \A c \in HealthChecked :
                ~(tx[c].transactionFailed /\ tx[c].transactionCritical))
    /\ [](pc = Returned("health", FALSE) =>
            \A c \in Conns :
                transactionInProgress[c] =>
                    ~(tx[c].transactionFailed /\ tx[c].transactionCritical))
    /\ [][pc.phase = "health" =>
            \A c \in Conns : tx[c].transactionFailed => tx'[c].transactionFailed]_vars

\* the check has marked the first transaction failed and gone on to the second
C15_Witness ==
    /\ CallRan("CheckRemoteTransactionsHealth")
    /\ pc.phase = "health" /\ pc.i = 2 /\ Len(pc.list) = 2
    /\ last.arg[1] = "PQTRANS_UNKNOWN"
    /\ ~last.pre.transactionFailed
    /\ After.transactionFailed /\ ~After.transactionCritical

\* the positions of the separators of a name, and its k-th field
Separators(s) == {i \in 1..Len(s) : s[i] = "_"}

NthSeparator(s, k) ==
    CHOOSE i \in Separators(s) : Cardinality({j \in Separators(s) : j <= i}) = k

FieldOf(s, k) ==
    SubSeq(s, NthSeparator(s, k) + 1,
           IF k < Cardinality(Separators(s))
           THEN NthSeparator(s, k + 1) - 1
           ELSE Len(s))

\* C16 as stated: the name formatted from any four non-negative values within
\* the widths of their types parses back: the parser returns true and hands
\* out the four values.
C16_RoundTrip ==
    (parsed.called /\ parsed.from # <<>>) =>
        /\ parsed.result
        /\ parsed.out = parsed.from

\* the round trip of a formatted name in a process whose errno is 0
C16_RoundTripCleanErrno ==
    (parsed.called /\ parsed.from # <<>> /\ parsed.errnoBefore = "0") =>
        /\ parsed.result
        /\ parsed.out = parsed.from

\* C17: for a name with fewer than four '_' the parser returns false, and it
\* reads nothing after the terminating NUL of the name.
C17_FewSeparatorsRejected ==
    (parsed.called /\ Cardinality(Separators(parsed.name)) < 4) =>
        /\ ~parsed.result
        /\ parsed.reach <= Len(parsed.name) + 1

\* a name that lacks only its last field has been parsed up to its end
C17_Witness ==
    /\ parsed.called
    /\ Cardinality(Separators(parsed.name)) = 3
    /\ \A k \in 1..3 : FieldOf(parsed.name, k) # <<>>
                       /\ \A i \in DOMAIN FieldOf(parsed.name, k) :
                              IsDigit(FieldOf(parsed.name, k)[i])
    /\ ~parsed.result
    /\ Len(parsed.out) = 3
    /\ parsed.reach = Len(parsed.name) + 1

\* "bad_1_2" has been parsed
C17_BadParsed ==
    /\ parsed.called
    /\ parsed.name = <<"b", "a", "d", "_", "1", "_", "2">>
    /\ ~parsed.result

\* the greatest value of the target type of the k-th field: int32 groupId,
\* int procId, uint64 transactionNumber, uint32 connectionNumber
FieldMax(k) == IF k <= 2 THEN INT_MAX ELSE IF k = 3 THEN ULLONG_MAX ELSE UINT_MAX

\* a field that is empty or alphabetic
NonNumeric(f) == \A i \in DOMAIN f : ~IsDigit(f[i])

AllDigits(f) == f # <<>> /\ \A i \in DOMAIN f : IsDigit(f[i])

\* a field of digits whose value its target type cannot hold
OutOfRange(f, k) ==
    AllDigits(f) /\ DecimalValue(f, 1, Len(f) + 1, FieldMax(k)) > FieldMax(k)

\* the name parsed last has four separators and a bad field
BadFieldParsed ==
    /\ parsed.called
    /\ Cardinality(Separators(parsed.name)) = 4
    /\ \E k \in 1..4 : \/ NonNumeric(FieldOf(parsed.name, k))
                       \/ OutOfRange(FieldOf(parsed.name, k), k)

\* C18 as stated: a name with four separators and a field that is empty,
\* alphabetic or out of the range of its target type is rejected, whatever
\* earlier calls did.
C18_BadFieldRejected == BadFieldParsed => ~parsed.result

\* the same in a process whose errno is 0 at the call
C18_BadFieldRejectedCleanErrno ==
    (BadFieldParsed /\ parsed.errnoBefore = "0") => ~parsed.result

\* the same where long has the width of int and a field without digits sets
\* EINVAL
C18_BadFieldRejectedStrictBuild ==
    (BadFieldParsed /\ build = [longBits |-> IntBits, noDigitsIsEINVAL |-> TRUE])
        => ~parsed.result

\* the connection number written in a name
NumberOf(name) ==
    LET f == FieldOf(name, 4) IN DecimalValue(f, 1, Len(f) + 1, UINT_MAX)

C19_Reused ==
    /\ Len(names) = 2^IntBits + 1
    /\ names[Len(names)] = names[1]

\* StartRemoteTransactionPrepare has just been called by the prepare phase
PrepareInvoked ==
    /\ last.op = "StartRemoteTransactionPrepare"
    /\ last.conn \in Conns

C20_Stopped ==
    /\ PrepareInvoked
    /\ assertChecking /\ ~last.assertOk
    /\ pc = Crashed
    /\ last.pre.transactionState = "REMOTE_TRANS_PREPARED"

\* the positions of connection c in a list
PositionsIn(list, c) == {i \in DOMAIN list : list[i] = c}

\* C21: ResetRemoteTransaction takes the connection out of
\* InProgressTransactions if it is a member and zeroes its RemoteTransaction:
\* afterwards the state is NOT_STARTED, failed, critical and recovering are
\* false, preparedName is empty and transactionInProgress is false; on a
\* connection that is no member the list stays as it is; no other
\* connection is touched.
C21_ResetZeroes ==
    [][ \A c \in Conns :
          ResetRemoteTransaction(c) =>
              /\ tx'[c].transactionState = "REMOTE_TRANS_NOT_STARTED"
              /\ ~tx'[c].transactionFailed
              /\ ~tx'[c].transactionCritical
              /\ ~tx'[c].transactionRecovering
              /\ tx'[c].preparedName = <<>>
              /\ ~transactionInProgress'[c]
              /\ PositionsIn(InProgressTransactions', c) = {}
              /\ ~transactionInProgress[c] =>
                     InProgressTransactions' = InProgressTransactions
              /\ transactionInProgress[c] =>
                     Len(InProgressTransactions') = Len(InProgressTransactions) - 1
              /\ \A d \in Conns \ {c} :
                     /\ tx'[d] = tx[d]
                     /\ transactionInProgress'[d] = transactionInProgress[d]
                     /\ PositionsIn(InProgressTransactions', d) # {}
                            <=> PositionsIn(InProgressTransactions, d) # {} ]_vars

\* the first of two prepared participants has been reset after the commit
\* phase; the second is still registered
C21_Witness ==
    /\ pc = Idle
    /\ caller = "ended"
    /\ tx["A"] = ZeroTransaction
    /\ ~transactionInProgress["A"]
    /\ InProgressTransactions = <<"B">>
    /\ tx["B"].transactionState = "REMOTE_TRANS_COMMITTED"
    /\ tx["B"].preparedName = PreparedTransactionName(1)
    /\ connectionNumber = 2

\* the coordinated functions that loop over InProgressTransactions
RegistryPhases ==
    {"prepare", "commit", "abort", "savepoint_begin", "savepoint_release",
     "savepoint_rollback", "health"}

\* a comes before b in list
Before(list, a, b) ==
    \E i, j \in DOMAIN list : i < j /\ list[i] = a /\ list[j] = b

\* C22: InProgressTransactions keeps the order of registration: a
\* registration puts the connection behind every registered one, a reset
\* takes one connection out and leaves the others in their order, nothing
\* else changes the list, and every loop of a coordinated function over the
\* list handles its connections from the first to the last, one after the
\* other.
C22_RegistrationOrder ==
    /\ [](pc.phase \in RegistryPhases => pc.list = InProgressTransactions)
    /\ [][ /\ \A c \in RegistryConns :
                /\ (~transactionInProgress[c] /\ transactionInProgress'[c])
                       => InProgressTransactions' = Append(InProgressTransactions, c)
                /\ (transactionInProgress[c] /\ ~transactionInProgress'[c])
                       => /\ Len(InProgressTransactions')
                                 = Len(InProgressTransactions) - 1
                          /\ \A a, b \in RegistryConns \ {c} :
                                 Before(InProgressTransactions', a, b)
                                     <=> Before(InProgressTransactions, a, b)
           /\ transactionInProgress' = transactionInProgress
                  => InProgressTransactions' = InProgressTransactions
           /\ pc.phase \in RegistryPhases =>
                /\ last'.op # "none" => last'.conn = pc.list[pc.i]
                /\ (pc'.phase = pc.phase /\ pc'.stage = pc.stage)
                       => pc'.i = pc.i + 1 /\ pc'.list = pc.list
                /\ (pc'.phase = pc.phase /\ pc'.stage # pc.stage)
                       => pc'.i = 1 /\ pc'.list = pc.list /\ pc.i = Len(pc.list) + 1
         ]_vars

\* the second of three registered connections has just been reset; the
\* first and the third are left, in their order
C22_Witness ==
    /\ last.op = "ResetRemoteTransaction"
    /\ last.conn = "B"
    /\ last.arg = <<"C", "B", "A">>
    /\ InProgressTransactions = <<"C", "A">>

\* the coordinated functions with a Start loop, a wait and a Finish loop
TwoLoopPhases ==
    {"begin", "prepare", "commit", "abort", "savepoint_begin",
     "savepoint_release", "savepoint_rollback"}

FinishCalls ==
    {"FinishRemoteTransactionBegin", "FinishRemoteTransactionPrepare",
     "FinishRemoteTransactionCommit", "FinishRemoteTransactionAbort",
     "FinishRemoteTransactionSavepointBegin",
     "FinishRemoteTransactionSavepointRelease",
     "FinishRemoteTransactionSavepointRollback"}

C24_PrepareParticipants ==
    /\ [](( /\ CallRan("StartRemoteTransactionPrepare")
            /\ ~last.sendOk )
          => /\ After.transactionFailed
             /\ After.transactionState # "REMOTE_TRANS_PREPARING")
    /\ [][ /\ InLoop("prepare", "start") =>
                ( last'.op = "StartRemoteTransactionPrepare"
                    <=> (~tx[Cur].transactionFailed /\ modifiedPlacement[Cur]) )
           /\ InLoop("prepare", "finish") =>
                ( last'.op = "FinishRemoteTransactionPrepare"
                    <=> tx[Cur].transactionState = "REMOTE_TRANS_PREPARING" )
           /\ last'.op \in {"StartRemoteTransactionPrepare",
                            "FinishRemoteTransactionPrepare"}
                => /\ pc.phase = "prepare"
                   /\ last'.conn = Cur
           /\ last'.op = "FinishRemoteTransactionPrepare"
                => ~tx[Cur].transactionFailed
         ]_vars

\* of two write participants the first could not be sent PREPARE
\* TRANSACTION and the second has just been finished; the second loop has
\* passed the first without a call
C24_Witness ==
    /\ pc.phase = "prepare"
    /\ pc.stage = "finish"
    /\ pc.list = <<"A", "B">>
    /\ pc.i = 3
    /\ CallRan("FinishRemoteTransactionPrepare")
    /\ last.conn = "B"
    /\ modifiedPlacement["A"] /\ modifiedPlacement["B"]
    /\ tx["A"].transactionFailed
    /\ tx["A"].transactionState = "REMOTE_TRANS_STARTED"
    /\ tx["A"].preparedName # <<>>
    /\ reply["A"] = "lost"
    /\ tx["B"].transactionState = "REMOTE_TRANS_PREPARED"

\* C25: whenever PREPARE TRANSACTION '<name>' has been sent on a connection,
\* the same call wrote the record of the connection's group and that name
\* with LogTransactionRecord before it sent the command.
C25_LoggedBeforePrepare ==
    ( /\ CallRan("StartRemoteTransactionPrepare")
      /\ last.cmd = "PREPARE TRANSACTION"
      /\ last.sendOk )
    => /\ "LogTransactionRecord" \in last.notes
       /\ last.arg = After.preparedName

\* C26: FinishRemoteTransactionCommit reading an OK result moves a
\* transaction in state 1PC_COMMITTING or 2PC_COMMITTING to COMMITTED and one
\* in state 1PC_ABORTING to ABORTED; reading any other result it marks the
\* transaction failed and leaves its state, which is not COMMITTED.
C26_CommitFinish ==
    [][ \A c \in Conns :
          ( /\ last'.op = "FinishRemoteTransactionCommit"
            /\ last'.conn = c
            /\ last'.assertOk \/ ~assertChecking )
          => /\ pc.phase = "commit" /\ pc.stage = "finish"
             /\ tx[c].transactionState \in
                    CommittingStates \cup {"REMOTE_TRANS_1PC_ABORTING"}
             /\ reply[c] = "ok" =>
                    /\ tx[c].transactionState \in CommittingStates
                           => tx'[c].transactionState = "REMOTE_TRANS_COMMITTED"
                    /\ tx[c].transactionState = "REMOTE_TRANS_1PC_ABORTING"
                           => tx'[c].transactionState = "REMOTE_TRANS_ABORTED"
                    /\ tx'[c].transactionFailed = tx[c].transactionFailed
             /\ reply[c] # "ok" =>
                    /\ tx'[c].transactionFailed
                    /\ tx'[c].transactionState = tx[c].transactionState
                    /\ tx'[c].transactionState # "REMOTE_TRANS_COMMITTED" ]_vars

\* the ROLLBACK sent by the commit phase to a failed transaction was answered
\* OK while the COMMIT PREPARED of the other participant is in flight
C26_Witness ==
    /\ CallRan("FinishRemoteTransactionCommit")
    /\ last.pre.transactionState = "REMOTE_TRANS_1PC_ABORTING"
    /\ reply[last.conn] = "was_ok"
    /\ last.handlers = <<>>
    /\ After.transactionState = "REMOTE_TRANS_ABORTED"
    /\ \E d \in Conns \ {last.conn} :
           tx[d].transactionState = "REMOTE_TRANS_2PC_COMMITTING"

\* StartRemoteTransactionAbort on a transaction that is not PREPARING or
\* PREPARED either closed the connection and sent nothing, or sent ROLLBACK
\* and, the send succeeding, moved the transaction to 1PC_ABORTING
AbortStartOutcome ==
    ( /\ CallRan("StartRemoteTransactionAbort")
      /\ last.pre.transactionState \notin PrepareStates )
    => IF "ShutdownConnection" \in last.notes
       THEN last.cmd = "none"
       ELSE /\ last.cmd = "ROLLBACK"
            /\ last.sendOk => After.transactionState = "REMOTE_TRANS_1PC_ABORTING"

\* C27: StartRemoteTransactionAbort on a transaction that is not PREPARING or
\* PREPARED closes the connection and sends no ROLLBACK when the pending
\* results cannot be drained without blocking, and otherwise sends plain
\* ROLLBACK and moves to 1PC_ABORTING; in either case the abort of the
\* transaction is finished: when CoordinatedRemoteTransactionsAbort returns,
\* every registered transaction that is not failed is ABORTED.
C27_AbortDrainFailure ==
    /\ AbortStartOutcome
    /\ (pc.phase = "returned" /\ pc.ended = "abort") =>
           \A c \in Conns :
               (transactionInProgress[c] /\ ~tx[c].transactionFailed)
                   => tx[c].transactionState = "REMOTE_TRANS_ABORTED"

\* C28: CoordinatedRemoteTransactionsSavepointBegin(subId) sends SAVEPOINT
\* savepoint_<subId> to exactly the transactions that are not failed; its
\* second loop sets lastSuccessfulSubXact to subId for exactly the
\* transactions that are still not failed and whose SAVEPOINT was sent and
\* answered OK; every other transaction keeps its lastSuccessfulSubXact
\* through the phase.
C28_SavepointBegin ==
    [][ pc.phase = "savepoint_begin" =>
          \A c \in Conns :
            /\ (InLoop("savepoint_begin", "start") /\ Cur = c) =>
                 /\ last'.op = "StartRemoteTransactionSavepointBegin"
                        <=> ~tx[c].transactionFailed
                 /\ last'.op = "StartRemoteTransactionSavepointBegin"
                        => /\ last'.conn = c
                           /\ last'.cmd = "SAVEPOINT"
                           /\ last'.arg = <<pc.subId>>
            /\ tx'[c].lastSuccessfulSubXact =
                 IF /\ InLoop("savepoint_begin", "finish") /\ Cur = c
                    /\ ~tx[c].transactionFailed
                    /\ reply[c] = "ok"
                 THEN pc.subId
                 ELSE tx[c].lastSuccessfulSubXact ]_vars

\* of two participants sent SAVEPOINT savepoint_2 the first was answered with
\* an error and keeps savepoint 1, the second has savepoint 2 recorded
C28_Witness ==
    /\ pc.phase = "savepoint_begin"
    /\ pc.stage = "finish"
    /\ pc.subId = 2
    /\ pc.list = <<"A", "B">>
    /\ pc.i = 3
    /\ last.op = "FinishRemoteTransactionSavepointBegin"
    /\ last.conn = "B"
    /\ tx["A"].transactionFailed
    /\ reply["A"] = "was_bad"
    /\ tx["A"].lastSuccessfulSubXact = 1
    /\ ~tx["B"].transactionFailed
    /\ last.pre.lastSuccessfulSubXact = 1
    /\ tx["B"].lastSuccessfulSubXact = 2

\* C29: no step of CoordinatedRemoteTransactionsSavepointRollback changes
\* whether a connection modified a placement, also not the step that
\* recovers a failed transaction; and the prepare phase starts Prepare on
\* every transaction that is not failed and whose connection modified a
\* placement, so also on a recovered one.
C29_RollbackKeepsWrites ==
    [][ /\ (pc.phase = "savepoint_rollback" \/ pc'.phase = "savepoint_rollback")
               => modifiedPlacement' = modifiedPlacement
        /\ ( /\ InLoop("prepare", "start")
             /\ modifiedPlacement[Cur]
             /\ ~tx[Cur].transactionFailed )
               => /\ last'.op = "StartRemoteTransactionPrepare"
                  /\ last'.conn = Cur ]_vars

\* a failed transaction whose connection modified a placement has just been
\* recovered by the rollback, and the connection still counts as modified
C29_Witness ==
    /\ pc.phase = "savepoint_rollback"
    /\ CallRan("FinishRemoteTransactionSavepointRollback")
    /\ last.pre.transactionFailed
    /\ last.pre.transactionRecovering
    /\ ~After.transactionFailed
    /\ ~After.transactionRecovering
    /\ After.transactionState = "REMOTE_TRANS_STARTED"
    /\ modifiedPlacement[last.conn]

\* C30: the second loop of CoordinatedRemoteTransactionsSavepointRollback
\* calls UnclaimConnection for a connection if and only if its transaction is
\* neither failed nor recovering once the loop has handled it; a connection
\* whose ROLLBACK TO SAVEPOINT failed and one that was skipped are not
\* unclaimed.
C30_ReleasedIffUsable ==
    [][ InLoop("savepoint_rollback", "finish") =>
            ( "UnclaimConnection" \in last'.notes
                <=> /\ ~tx'[Cur].transactionFailed
                    /\ ~tx'[Cur].transactionRecovering ) ]_vars

\* the largest sub-transaction id of a list, TopSubTransactionId for none:
\* ids grow with the nesting depth
DeepestSubXact(active) ==
    IF active = <<>>
    THEN TopSubTransactionId
    ELSE CHOOSE s \in {active[i] : i \in DOMAIN active} :
             \A i \in DOMAIN active : active[i] <= s

\* C31: StartRemoteTransactionBegin moves a NOT_STARTED transaction to
\* STARTING, appends its connection to InProgressTransactions and sets
\* lastQueuedSubXact to the deepest open sub-transaction (TopSubTransactionId
\* when none is open); FinishRemoteTransactionBegin moves a STARTING
\* transaction to STARTED with lastSuccessfulSubXact = lastQueuedSubXact
\* exactly when the results were drained, and otherwise leaves it STARTING
\* with its lastSuccessfulSubXact.
C31_Begin ==
    [][ \A c \in Conns :
          /\ ( /\ last'.op = "StartRemoteTransactionBegin"
               /\ last'.conn = c
               /\ last'.assertOk \/ ~assertChecking )
             => /\ tx[c].transactionState = "REMOTE_TRANS_NOT_STARTED"
                /\ tx'[c].transactionState = "REMOTE_TRANS_STARTING"
                /\ InProgressTransactions' = Append(InProgressTransactions, c)
                /\ transactionInProgress'[c]
                /\ tx'[c].lastQueuedSubXact = DeepestSubXact(last'.arg)
                /\ tx'[c].lastSuccessfulSubXact = TopSubTransactionId
          /\ ( /\ last'.op = "FinishRemoteTransactionBegin"
               /\ last'.conn = c
               /\ last'.assertOk \/ ~assertChecking )
             => /\ tx[c].transactionState = "REMOTE_TRANS_STARTING"
                /\ IF last'.handlers = <<>>
                   THEN /\ tx'[c].transactionState = "REMOTE_TRANS_STARTED"
                        /\ tx'[c].lastSuccessfulSubXact = tx[c].lastQueuedSubXact
                   ELSE /\ tx'[c].transactionState = "REMOTE_TRANS_STARTING"
                        /\ tx'[c].lastSuccessfulSubXact = tx[c].lastSuccessfulSubXact
                        /\ tx'[c].transactionFailed ]_vars

\* a transaction begun inside the nested sub-transactions 2 and 3 has been
\* started: the BEGIN entered both and savepoint 3 is its last successful one
C31_Witness ==
    /\ CallRan("FinishRemoteTransactionBegin")
    /\ last.handlers = <<>>
    /\ last.pre.lastSuccessfulSubXact = TopSubTransactionId
    /\ last.pre.lastQueuedSubXact = 3
    /\ After.transactionState = "REMOTE_TRANS_STARTED"
    /\ After.lastSuccessfulSubXact = 3
    /\ InProgressTransactions = <<"B", "A">>
    /\ last.conn = "A"

\* C32: a connection is in InProgressTransactions exactly when its
\* transactionInProgress flag is set, it is there at most once, and the
\* transaction of every member is not NOT_STARTED; BEGIN is sent only on a
\* connection that is no member, and a member stays one until
\* ResetRemoteTransaction is called on it, so BEGIN is sent at most once
\* between two resets.
C32_RegistryMembership ==
    /\ [](\A c \in RegistryConns :
            /\ PositionsIn(InProgressTransactions, c) # {}
                   <=> transactionInProgress[c]
            /\ Cardinality(PositionsIn(InProgressTransactions, c)) <= 1
            /\ transactionInProgress[c]
                   => tx[c].transactionState # "REMOTE_TRANS_NOT_STARTED")
    /\ [][ \A c \in RegistryConns :
             /\ (last'.op = "StartRemoteTransactionBegin" /\ last'.conn = c)
                    => /\ ~transactionInProgress[c]
                       /\ transactionInProgress'[c]
                       /\ last'.cmd = "BEGIN"
             /\ (transactionInProgress[c] /\ ~transactionInProgress'[c])
                    => /\ last'.op = "ResetRemoteTransaction"
                       /\ last'.conn = c ]_vars

\* RemoteTransactionsBeginIfNecessary was handed a connection whose
\* transaction is started and has passed it without a call
C32_Witness ==
    /\ pc.phase = "begin"
    /\ pc.stage = "start"
    /\ pc.list = <<"A", "B">>
    /\ pc.i = 2
    /\ last.op = "none"
    /\ transactionInProgress["A"]
    /\ tx["A"].transactionState = "REMOTE_TRANS_STARTED"
    /\ InProgressTransactions = <<"C", "A">>
    /\ ~transactionInProgress["B"]

\* C33 (as stated): a participant in PREPARED is finalised with the commands
\* of two-phase commit only: StartRemoteTransactionCommit sends it COMMIT
\* PREPARED and StartRemoteTransactionAbort sends it ROLLBACK PREPARED, each
\* with its preparedName, never plain COMMIT or plain ROLLBACK, also when it
\* was marked failed after it was prepared.
C33_PreparedFinalisedBy2PC ==
    /\ (CallRan("StartRemoteTransactionCommit")
          /\ last.pre.transactionState = "REMOTE_TRANS_PREPARED")
       => /\ last.cmd \in {"COMMIT PREPARED", "ROLLBACK PREPARED"}
          /\ last.arg = last.pre.preparedName
    /\ (CallRan("StartRemoteTransactionAbort")
          /\ last.pre.transactionState = "REMOTE_TRANS_PREPARED")
       => /\ last.cmd = "ROLLBACK PREPARED"
          /\ last.arg = last.pre.preparedName

\* a transaction that is failed and being rolled back or rolled back
FailedAndAborting(t) ==
    /\ t.transactionFailed
    /\ t.transactionState \in {"REMOTE_TRANS_1PC_ABORTING", "REMOTE_TRANS_ABORTED"}

C35_AllAbortedAfterAbort ==
    (pc = Returned("abort", FALSE)) =>
        \A c \in Conns :
            PositionsIn(InProgressTransactions, c) # {}
                => tx[c].transactionState = "REMOTE_TRANS_ABORTED"

\* C36 (as stated): in every coordinated function a Finish call is made on a
\* connection only if the matching Start call was made on it earlier in the
\* same invocation; in particular FinishRemoteTransactionSavepointRollback is
\* never called on a failed participant that the first loop skipped.
C36_FinishOnlyAfterStart ==
    [][ last'.op \in FinishCalls => last'.conn \in pc.started ]_vars

\* C37 (as stated): transactionRecovering is transient: whenever the control
\* thread is not in CoordinatedRemoteTransactionsSavepointRollback, no
\* transaction has transactionRecovering set; the flag is set only in the
\* first loop of that function and is cleared again before it returns,
\* whether ROLLBACK TO SAVEPOINT succeeded or not.
C37_RecoveringTransient ==
    /\ [](pc.phase # "savepoint_rollback"
             => \A c \in Conns : ~tx[c].transactionRecovering)
    /\ [][ \A c \in Conns :
             (~tx[c].transactionRecovering /\ tx'[c].transactionRecovering)
                 => InLoop("savepoint_rollback", "start") /\ Cur = c ]_vars

\* C38 (as stated): whatever coordinated functions are called and in whatever
\* order, also again after an earlier call left transactions in a
\* non-terminal state, no Start or Finish function is called on a transaction
\* that violates one of its Asserts, so no build stops on one.
C38_AssertsHold ==
    /\ last.op \in StartCalls \cup FinishCalls => last.assertOk
    /\ pc # Crashed

\* the Start and Finish calls of the abort and rollback-to-savepoint phases
AbortAndRollbackCalls ==
    {"StartRemoteTransactionAbort", "FinishRemoteTransactionAbort",
     "StartRemoteTransactionSavepointRollback",
     "FinishRemoteTransactionSavepointRollback", "SkipSavepointRollback"}

\* C39: CoordinatedRemoteTransactionsAbort and
\* CoordinatedRemoteTransactionsSavepointRollback never leave by
\* ereport(ERROR): every handler their Start and Finish calls run is given
\* raiseErrors = false and does not raise, also for a critical transaction;
\* the failure only sets transactionFailed and the loop goes on.
C39_AbortAndRollbackNeverRaise ==
    /\ (pc.phase = "returned" /\ pc.ended \in {"abort", "savepoint_rollback"})
           => ~pc.raised
    /\ (last.op \in AbortAndRollbackCalls /\ CallRan(last.op))
           => /\ ~last.err
              /\ \A k \in DOMAIN last.handlers :
                     ~last.handlers[k].raiseErrors /\ ~last.handlers[k].raised
              /\ last.handlers # <<>> => After.transactionFailed
              /\ pc.phase \in {"abort", "savepoint_rollback"}

\* the send of ROLLBACK TO SAVEPOINT to a critical transaction failed, and the
\* first loop of the rollback goes on
C39_Witness ==
    /\ CallRan("StartRemoteTransactionSavepointRollback")
    /\ last.pre.transactionCritical
    /\ ~last.pre.transactionFailed
    /\ ~last.sendOk
    /\ After.transactionFailed
    /\ pc.phase = "savepoint_rollback"

====
